---- MODULE Spec2Model ----
(***************************************************************************)
(* The operation template language of jj (cli/src/operation_templater.rs)  *)
(* and the HexCounter example extension                                    *)
(* (cli/examples/custom-operation-templater/main.rs).                      *)
(*                                                                         *)
(* Strings are sequences of one-character strings.  An OperationId is a    *)
(* sequence of bytes; hex() renders it.  A template property is a record   *)
(* [kind, chain]: kind is the variant of OperationTemplatePropertyKind     *)
(* (a core kind name stands for Core(kind)), chain is the list of          *)
(* TemplateFunction closures applied, innermost first, to the context.     *)
(***************************************************************************)
EXTENDS Integers, Sequences, FiniteSets, TLC

VARIABLES
  language,   \* the OperationTemplateLanguage in use
  installed,  \* the extension `language` was constructed with
  property,   \* the property built so far, or NoProperty once consumed
  last,       \* the last call made and what it returned
  tableA,     \* two dispatch tables handed to merge,
  tableB,
  merged,     \* and the two merges of them
  evaluated,  \* the first evaluation of `property` since it was built
  calls,      \* what `new` called to construct `language`, in order
  body,       \* the message given to get_footer_lines
  footer,     \* whether it was called, and what it returned
  send,       \* the SendArgs of a `gerrit send`, and the repo it runs in
  store,      \* the commits of the repo, by id
  pc,         \* where cmd_send is
  todo,       \* the selected commits the rewrite loop has not yet visited
  old_to_new, \* the mapping old -> (new, is_dry_run), in insertion order
  new_heads,  \* the heads found to push
  pushes,     \* the pushes attempted, with their outcome
  warnings,   \* the warnings written
  returned,   \* what cmd_send returned
  repo_log,        \* the commits `jj log` shows, root first, @ last
  local_branches,  \* the local branches and the commit each points to
  advance_branches,\* the advance-branches settings of the repo
  next_commit_id,  \* the id the next new commit gets
  jj_cmd           \* the last jj command run in the workspace, and how it ended

footer_vars == <<body, footer>>

send_vars ==
  <<send, store, pc, todo, old_to_new, new_heads, pushes, warnings, returned>>

workspace_vars ==
  <<repo_log, local_branches, advance_branches, next_commit_id, jj_cmd>>

vars ==
  <<language, installed, property, last, tableA, tableB, merged, evaluated, calls,
    footer_vars, send_vars, workspace_vars>>

None == "None"

\* Option<T>: Some(v), or Absent(d) with d a placeholder of v's type.
Some(v) == [some |-> TRUE, value |-> v]

Absent(d) == [some |-> FALSE, value |-> d]

\* Result<T, E>
Ok(v) == [ok |-> TRUE, value |-> v, err |-> None]

Err(e) == [ok |-> FALSE, value |-> None, err |-> e]

\* ---------------------------------------------------------------- bounds

\* Longest operation id, in bytes (hex rendering is twice as long).
MaxIdBytes == 7

\* Largest integer literal given to short(len).
MaxLen == 13

\* Most arguments in a method call node.
MaxArgs == 2

\* Method names per sub-table in the tables given to merge.
MaxMergeNames == 2

\* ------------------------------------------------------ ids and operations

HexChars == <<"0", "1", "2", "3", "4", "5", "6", "7",
              "8", "9", "a", "b", "c", "d", "e", "f">>

Digits == {"0", "1", "2", "3", "4", "5", "6", "7", "8", "9"}

\* ObjectId::hex: two lowercase hex characters per byte, high nibble first.
hex(id) ==
  [i \in 1..(2 * Len(id)) |->
     LET b == id[(i + 1) \div 2]
     IN  IF i % 2 = 1 THEN HexChars[(b \div 16) + 1] ELSE HexChars[(b % 16) + 1]]

\* Byte patterns the ids start with; an id is a pattern cut or zero-padded.
IdPrefixes ==
  { <<>>,
    <<171, 193, 35>>,                  \* abc123
    <<161, 178, 195, 212, 229, 246>> } \* a1b2c3d4e5f6

IdLens == {2, MaxIdBytes - 1, MaxIdBytes}

PadId(prefix, n) == [i \in 1..n |-> IF i <= Len(prefix) THEN prefix[i] ELSE 0]

OperationIds == { PadId(p, n) : p \in IdPrefixes, n \in IdLens }

\* OperationMetadata values: description, tags, times, user, host.  The tags
\* are the (key, value) pairs in the order tags.iter() yields them.
Metadatas ==
  { [description |-> <<"a", "d", "d">>, tags |-> <<>>,
     start_time |-> 1, end_time |-> 2,
     username |-> <<"u">>, hostname |-> <<"h">>],
    [description |-> <<>>, tags |-> << <<<<"k">>, <<"v", "1">>>>, <<<<"a", "b">>, <<>>>> >>,
     start_time |-> 3, end_time |-> 3,
     username |-> <<"r">>, hostname |-> <<"h", "q">>] }

\* An Operation: id, parent ids, metadata.  Every id comes without a parent
\* and with one.
Operations ==
  { [id |-> i, parents |-> IF m.start_time = 1 THEN {} ELSE {PadId(<<>>, MaxIdBytes)},
     metadata |-> m] : i \in OperationIds, m \in Metadatas }

\* ------------------------------------------------------- dispatch tables

\* HashMap::new(): a method map with no entries.
EmptyMap == [n \in {} |-> None]

\* A method map holding the builders of `origin` under `names`.
Builders(origin, receiver, names) ==
  [n \in names |-> [origin |-> origin, receiver |-> receiver, name |-> n]]

CoreKinds == {"Boolean", "Integer", "String", "Timestamp", "TimestampRange"}

\* CoreTemplateBuildFnTable: one method map per core kind.
CoreTemplateBuildFnTable_builtin ==
  [k \in CoreKinds |->
     IF k = "TimestampRange" THEN Builders("core", "TimestampRange", {"start", "end"})
     ELSE EmptyMap]

CoreTemplateBuildFnTable_empty == [k \in CoreKinds |-> EmptyMap]

\* merge_fn_map: every entry of `extension` is inserted into `base` under
\* its name.  Only maps with no name in common are merged here.
merge_fn_map(base, extension) ==
  [n \in (DOMAIN base) \cup (DOMAIN extension) |->
     IF n \in DOMAIN extension THEN extension[n] ELSE base[n]]

\* CoreTemplateBuildFnTable::merge: kind by kind.
CoreTemplateBuildFnTable_merge(base, extension) ==
  [k \in CoreKinds |-> merge_fn_map(base[k], extension[k])]

builtin_operation_methods ==
  Builders("builtin", "Operation",
           {"current_operation", "description", "id", "tags", "time", "user", "root"})

builtin_operation_id_methods == Builders("builtin", "OperationId", {"short"})

\* OperationTemplateBuildFnTable::builtin
builtin ==
  [core |-> CoreTemplateBuildFnTable_builtin,
   operation_methods |-> builtin_operation_methods,
   operation_id_methods |-> builtin_operation_id_methods]

\* OperationTemplateBuildFnTable::empty
empty ==
  [core |-> CoreTemplateBuildFnTable_empty,
   operation_methods |-> EmptyMap,
   operation_id_methods |-> EmptyMap]

\* merge putting the other table's operation methods among the id methods.
merge_crossed(self, other) ==
  [core |-> CoreTemplateBuildFnTable_merge(self.core, other.core),
   operation_methods |-> merge_fn_map(self.operation_methods, other.operation_methods),
   operation_id_methods |->
     merge_fn_map(self.operation_id_methods, other.operation_methods)]

\* OperationTemplateBuildFnTable::merge(self, other): the merged self.
merge(self, other) ==
  [core |-> CoreTemplateBuildFnTable_merge(self.core, other.core),
   operation_methods |-> merge_fn_map(self.operation_methods, other.operation_methods),
   operation_id_methods |->
     merge_fn_map(self.operation_id_methods, other.operation_id_methods)]

\* ------------------------------------------------------------ extensions

\* ExtensionsMap: at most one stored value per type.
ExtensionsMap_empty == [t \in {} |-> None]

ExtensionsMap_insert(map, type, value) ==
  [t \in (DOMAIN map) \cup {type} |-> IF t = type THEN value ELSE map[t]]

\* ExtensionsMap::get::<T>
ExtensionsMap_get(map, type) ==
  IF type \in DOMAIN map THEN Some(map[type]) ELSE Absent(None)

\* Types a caller may ask cache_extension for.
CacheTypes == {"OpIndex", "Unstored"}

\* The extensions a binding is constructed with: none, the HexCounter of the
\* example, and one that contributes no method and stores an OpIndex.
Extensions == {None, "HexCounter", "IndexCache"}

\* HexCounter::build_fn_table
HexCounter_build_fn_table ==
  [empty EXCEPT !.operation_methods =
     Builders("HexCounter", "Operation", {"num_digits_in_id", "num_char_in_id"})]

\* HexCounter::build_cache_extensions: stores nothing.
HexCounter_build_cache_extensions(extensions) == extensions

\* OperationTemplateLanguageExtension::build_fn_table
build_fn_table(extension) ==
  IF extension = "HexCounter" THEN HexCounter_build_fn_table ELSE empty

\* OperationTemplateLanguageExtension::build_cache_extensions
build_cache_extensions(extension, extensions) ==
  IF extension = "HexCounter" THEN HexCounter_build_cache_extensions(extensions)
  ELSE ExtensionsMap_insert(extensions, "OpIndex", "index")

\* new building the extension's table and not merging it.
new_without_merge(root_op_id, current_op_id, extension) ==
  [root_op_id |-> root_op_id,
   current_op_id |-> current_op_id,
   build_fn_table |-> builtin,
   cache_extensions |->
     IF extension # None THEN build_cache_extensions(extension, ExtensionsMap_empty)
     ELSE ExtensionsMap_empty]

\* OperationTemplateLanguage::new
new(root_op_id, current_op_id, extension) ==
  [root_op_id |-> root_op_id,
   current_op_id |-> current_op_id,
   build_fn_table |->
     IF extension # None THEN merge(builtin, build_fn_table(extension)) ELSE builtin,
   cache_extensions |->
     IF extension # None THEN build_cache_extensions(extension, ExtensionsMap_empty)
     ELSE ExtensionsMap_empty]

\* The calls new makes on the extension and on the table, in order.
new_calls(extension) ==
  IF extension # None THEN <<"build_fn_table", "merge", "build_cache_extensions">>
  ELSE <<>>

\* cache_extension returning whatever is stored, of any type.
cache_extension_any_type(self, type) ==
  IF DOMAIN self.cache_extensions = {} THEN Absent(None)
  ELSE Some(self.cache_extensions[CHOOSE t \in DOMAIN self.cache_extensions : TRUE])

\* OperationTemplateLanguage::cache_extension::<T>
cache_extension(self, type) == ExtensionsMap_get(self.cache_extensions, type)

\* ------------------------------------------------------- call tree nodes

\* ExpressionNode: an integer literal or a string literal.
IntegerNode(n) == [type |-> "Integer", int |-> n, str |-> <<>>]

StringNode(str) == [type |-> "String", int |-> 0, str |-> str]

\* First arguments given to any method: 0 and the string literals '', 'a', 'a0'.
FirstArgNodes ==
  { IntegerNode(0) } \cup { StringNode(str) : str \in {<<>>, <<"a">>, <<"a", "0">>} }

\* Argument lists of 0..MaxArgs nodes; those of two and more are all 0.
ArgLists ==
  { <<>> } \cup { <<a>> : a \in FirstArgNodes } \cup
  { [i \in 1..n |-> IntegerNode(0)] : n \in 2..MaxArgs }

\* Lengths given to short(len): the integer literals -1..MaxLen.
LenArgLists == { <<IntegerNode(n)>> : n \in -1..MaxLen }

\* Method names called: every registered name and one registered nowhere.
MethodNames ==
  { "current_operation", "description", "id", "tags", "time", "user", "root",
    "short", "num_digits_in_id", "num_char_in_id", "start", "end", "nosuch" }

\* FunctionCallNode
FunctionCallNodes ==
  { [name |-> n, args |-> args] : n \in MethodNames, args \in ArgLists } \cup
  { [name |-> "short", args |-> args] : args \in LenArgLists }

\* TemplateParseError: its kind, the type and method named, the span marked.
ParseError(kind, type_name, name, span) ==
  [kind |-> kind, type_name |-> type_name, name |-> name, span |-> span]

\* template_parser::lookup_method
lookup_method(type_name, table, function) ==
  IF function.name \in DOMAIN table THEN Ok(table[function.name])
  ELSE Err(ParseError("NoSuchMethod", type_name, function.name, "name"))

\* template_parser::expect_no_arguments
expect_no_arguments(function) ==
  IF Len(function.args) = 0 THEN Ok(<<>>)
  ELSE Err(ParseError("InvalidArguments", None, function.name, "args"))

\* template_parser::expect_exact_arguments::<N>
expect_exact_arguments(function, n) ==
  IF Len(function.args) = n THEN Ok(function.args)
  ELSE Err(ParseError("InvalidArguments", None, function.name, "args"))

\* template_parser::expect_arguments::<N, M>: N required, up to M optional.
expect_arguments(function, n, m) ==
  IF Len(function.args) >= n /\ Len(function.args) <= n + m THEN Ok(function.args)
  ELSE Err(ParseError("InvalidArguments", None, function.name, "args"))

\* template_builder::expect_usize_expression: the node must build to an
\* integer property; its value is converted to usize at evaluation.
expect_usize_expression(node, span) ==
  IF node.type = "Integer" THEN Ok(node.int)
  ELSE Err(ParseError("UnexpectedExpression", "Integer", None, span))

\* template_parser::expect_string_literal_with, given HexCounter's check
\* that the literal is a single character.
expect_singular_character(node, span) ==
  IF node.type # "String" THEN Err(ParseError("UnexpectedExpression", "String", None, span))
  ELSE IF Len(node.str) = 1 THEN Ok(node.str[1])
  ELSE Err(ParseError("UnexpectedExpression", "singular character", None, span))

\* ------------------------------------------------------------ properties

NoProperty == [kind |-> None, chain |-> <<>>]

\* One TemplateFunction of a property: the builder it came from and the
\* values its closure captured.
Closure(fn, cap_id, cap_ch, len) ==
  [fn |-> fn, cap_id |-> cap_id, cap_ch |-> cap_ch, len |-> len]

PlainClosure(fn) == Closure(fn, Absent(<<>>), "", Absent(0))

\* TemplateFunction::new(self_property, closure) wrapped as `kind`.
Wrap(kind, self_property, closure) ==
  [kind |-> kind, chain |-> Append(self_property.chain, closure)]

\* OperationTemplateLanguage::wrap_operation
wrap_operation(chain) == [kind |-> "Operation", chain |-> chain]

\* OperationTemplateLanguage::wrap_operation_id
wrap_operation_id(self_property, closure) == Wrap("OperationId", self_property, closure)

\* TemplateLanguage::build_self
build_self == wrap_operation(<<>>)

\* -------------------------------------------- closures run at evaluation

\* The length short() truncates to when no argument is given.
DefaultShortLen == 12

\* String::truncate: no effect when new_len is not below the length.
truncate(str, new_len) == IF new_len <= Len(str) THEN SubSeq(str, 1, new_len) ELSE str

RECURSIVE CountIn(_, _)
\* How many characters of `str` are in `chars`.
CountIn(str, chars) ==
  IF Len(str) = 0 THEN 0
  ELSE (IF str[1] \in chars THEN 1 ELSE 0) + CountIn(Tail(str), chars)

\* current_operation() comparing with the current id the binding has when
\* the property is evaluated.
current_operation_fn_live(op, current_op_id) ==
  language.current_op_id.some /\ language.current_op_id.value = op.id

\* current_operation(): Some(op.id()) == current_op_id.as_ref()
current_operation_fn(op, current_op_id) ==
  current_op_id.some /\ current_op_id.value = op.id

\* root() telling the root operation by its having no parent.
root_fn_parentless(op, root_op_id) == op.parents = {}

\* root(): op.id() == &root_op_id
root_fn(op, root_op_id) == op.id = root_op_id

\* user(): format!("{}@{}", username, hostname)
user_fn(op) == op.metadata.username \o <<"@">> \o op.metadata.hostname

RECURSIVE JoinTags(_)
\* tags(): "key: value" per tag, joined by "\n".
JoinTags(tags) ==
  IF Len(tags) = 0 THEN <<>>
  ELSE LET line == tags[1][1] \o <<":", " ">> \o tags[1][2]
       IN  IF Len(tags) = 1 THEN line ELSE line \o <<"\n">> \o JoinTags(Tail(tags))

\* tags() writing the tags last to first.
tags_fn_reversed(op) ==
  LET tags == op.metadata.tags
  IN  JoinTags([i \in 1..Len(tags) |-> tags[Len(tags) + 1 - i]])

tags_fn(op) == JoinTags(op.metadata.tags)

\* time(): TimestampRange { start, end }
time_fn(op) == [start |-> op.metadata.start_time, end |-> op.metadata.end_time]

\* short() truncating to the default length whatever the argument.
short_fn_ignores_len(id, len) == truncate(hex(id), DefaultShortLen)

\* short(): hex.truncate(len.unwrap_or(12))
short_fn(id, len) ==
  truncate(hex(id), IF len.some THEN len.value ELSE DefaultShortLen)

\* num_digits_in_id counting every character.
num_digits_in_id_all(id) == Len(hex(id))

\* HexCounter's num_digits_in_id(id)
num_digits_in_id(id) == CountIn(hex(id), Digits)

\* HexCounter's num_char_in_id(operation, ch_match)
num_char_in_id(operation, ch_match) == Ok(CountIn(hex(operation.id), {ch_match}))

\* The usize property of short's argument: usize::try_from of the literal.
ExtractLen(len) ==
  IF ~len.some THEN Ok(Absent(0))
  ELSE IF len.value < 0 THEN Err("TryFromIntError")
  ELSE Ok(Some(len.value))

RECURSIVE Decimal(_)
\* Display of a non-negative integer.
Decimal(n) ==
  IF n < 10 THEN <<HexChars[n + 1]>>
  ELSE Append(Decimal(n \div 10), HexChars[(n % 10) + 1])

\* impl Template<()> for OperationId: formatter.write_str(&self.hex())
OperationId_format(id) == hex(id)

\* Template::format of a value of `kind`, as the text written.
FormatValue(kind, value) ==
  CASE kind = "OperationId" -> OperationId_format(value)
    [] kind = "String" -> value
    [] kind = "Boolean" -> IF value THEN <<"t", "r", "u", "e">> ELSE <<"f", "a", "l", "s", "e">>
    [] kind = "Integer" -> Decimal(value)
    [] kind = "Timestamp" -> <<"@">> \o Decimal(value)
    [] kind = "TimestampRange" ->
         <<"@">> \o Decimal(value.start) \o <<"-">> \o Decimal(value.end)

\* What a property error is written as by a template.
InlineError == <<"<", "E", "r", "r", "o", "r", ">">>

\* The closure of one TemplateFunction applied to its upstream value.
CallClosure(closure, value) ==
  LET fn == closure.fn
  IN  CASE fn.origin = "builtin" /\ fn.name = "current_operation" ->
             Ok(current_operation_fn(value, closure.cap_id))
        [] fn.origin = "builtin" /\ fn.name = "description" -> Ok(value.metadata.description)
        [] fn.origin = "builtin" /\ fn.name = "id" -> Ok(value.id)
        [] fn.origin = "builtin" /\ fn.name = "tags" -> Ok(tags_fn(value))
        [] fn.origin = "builtin" /\ fn.name = "time" -> Ok(time_fn(value))
        [] fn.origin = "builtin" /\ fn.name = "user" -> Ok(user_fn(value))
        [] fn.origin = "builtin" /\ fn.name = "root" ->
             Ok(root_fn(value, closure.cap_id.value))
        [] fn.origin = "HexCounter" /\ fn.name = "num_digits_in_id" ->
             Ok(num_digits_in_id(value.id))
        [] fn.origin = "HexCounter" /\ fn.name = "num_char_in_id" ->
             num_char_in_id(value, closure.cap_ch)
        [] fn.origin = "core" /\ fn.name = "start" -> Ok(value.start)
        [] fn.origin = "core" /\ fn.name = "end" -> Ok(value.end)
        [] fn.origin = "cast" /\ fn.name = "is_non_empty" -> Ok(Len(value) > 0)

\* An extraction: its result and the steps run to get it, in order -- the
\* name of each closure called, and "len" for short's length property.
Extraction(result, ran) ==
  [ok |-> result.ok, value |-> result.value, err |-> result.err, ran |-> ran]

Result(extraction) ==
  [ok |-> extraction.ok, value |-> extraction.value, err |-> extraction.err]

RECURSIVE Extract(_, _, _)
\* TemplateProperty::extract of the first k closures of `chain` on `context`.
\* A TemplateFunction extracts its upstream property first and returns its
\* error; short's (self, len) tuple extracts self, then len.  A template
\* writes an upstream error inline; plain text is the text a template wrote.
Extract(chain, k, context) ==
  IF k = 0 THEN Extraction(Ok(context), <<>>)
  ELSE
    LET upstream == Extract(chain, k - 1, context)
        closure == chain[k]
        fn == closure.fn
        called == Append(upstream.ran, fn.name)
    IN  IF fn.origin = "cast" /\ fn.name = "into_template" THEN
          IF upstream.ok THEN Extraction(Ok(FormatValue(fn.receiver, upstream.value)), called)
          ELSE Extraction(Ok(InlineError), called)
        ELSE IF fn.origin = "cast" /\ fn.name = "plain_text" THEN
          Extraction(Result(upstream), called)
        ELSE IF ~upstream.ok THEN upstream
        ELSE IF fn.origin = "builtin" /\ fn.name = "short" THEN
          LET len == ExtractLen(closure.len)
              with_len == IF closure.len.some THEN Append(upstream.ran, "len")
                          ELSE upstream.ran
          IN  IF ~len.ok THEN Extraction(len, with_len)
              ELSE Extraction(Ok(short_fn(upstream.value, len.value)),
                              Append(with_len, fn.name))
        ELSE Extraction(CallClosure(closure, upstream.value), called)

\* Evaluating a built property (or formatting a template) against an operation.
Evaluate(prop, context) == Result(Extract(prop.chain, Len(prop.chain), context))

\* The steps that evaluation runs.
Ran(prop, context) == Extract(prop.chain, Len(prop.chain), context).ran

\* ------------------------------------------------------------- builders

\* A builder that does not look at the arguments it is given.
NoArgBuilder_dropping_arguments(kind, builder, self_property, function) ==
  Ok(Wrap(kind, self_property, PlainClosure(builder)))

\* A builder that takes no argument and captures nothing.
NoArgBuilder(kind, builder, self_property, function) ==
  LET args == expect_no_arguments(function)
  IN  IF ~args.ok THEN args ELSE Ok(Wrap(kind, self_property, PlainClosure(builder)))

\* "current_operation" capturing the root id in place of the current one.
build_current_operation_root(self, builder, self_property, function) ==
  LET args == expect_no_arguments(function)
  IN  IF ~args.ok THEN args
      ELSE Ok(Wrap("Boolean", self_property,
                   Closure(builder, Some(self.root_op_id), "", Absent(0))))

\* "current_operation": captures language.current_op_id.
build_current_operation(self, builder, self_property, function) ==
  LET args == expect_no_arguments(function)
  IN  IF ~args.ok THEN args
      ELSE Ok(Wrap("Boolean", self_property,
                   Closure(builder, self.current_op_id, "", Absent(0))))

\* "root": captures language.root_op_id.
build_root(self, builder, self_property, function) ==
  LET args == expect_no_arguments(function)
  IN  IF ~args.ok THEN args
      ELSE Ok(Wrap("Boolean", self_property,
                   Closure(builder, Some(self.root_op_id), "", Absent(0))))

\* "id"
build_id(self, builder, self_property, function) ==
  LET args == expect_no_arguments(function)
  IN  IF ~args.ok THEN args
      ELSE Ok(wrap_operation_id(self_property, PlainClosure(builder)))

\* "short" leaving out a length that is no usize, as if none were given.
build_short_lenient(self, builder, self_property, function) ==
  LET args == expect_arguments(function, 0, 1)
  IN  IF ~args.ok THEN args
      ELSE IF Len(args.value) = 0
        THEN Ok(Wrap("String", self_property, PlainClosure(builder)))
      ELSE LET len_property == expect_usize_expression(args.value[1], "arg1")
           IN  IF ~len_property.ok THEN len_property
               ELSE IF len_property.value < 0
                 THEN Ok(Wrap("String", self_property, PlainClosure(builder)))
               ELSE Ok(Wrap("String", self_property,
                            Closure(builder, Absent(<<>>), "", Some(len_property.value))))

\* "short": ([], [len_node]) = expect_arguments(function)?
build_short(self, builder, self_property, function) ==
  LET args == expect_arguments(function, 0, 1)
  IN  IF ~args.ok THEN args
      ELSE IF Len(args.value) = 0
        THEN Ok(Wrap("String", self_property, PlainClosure(builder)))
      ELSE LET len_property == expect_usize_expression(args.value[1], "arg1")
           IN  IF ~len_property.ok THEN len_property
               ELSE Ok(Wrap("String", self_property,
                            Closure(builder, Absent(<<>>), "", Some(len_property.value))))

\* "num_char_in_id" taking the first character of a longer string literal.
build_num_char_in_id_first_char(self, builder, self_property, function) ==
  LET args == expect_exact_arguments(function, 1)
  IN  IF ~args.ok THEN args
      ELSE LET node == args.value[1]
           IN  IF node.type # "String" \/ Len(node.str) = 0
                 THEN expect_singular_character(node, "arg1")
               ELSE Ok(Wrap("Integer", self_property,
                            Closure(builder, Absent(<<>>), node.str[1], Absent(0))))

\* HexCounter's "num_char_in_id"
build_num_char_in_id(self, builder, self_property, function) ==
  LET args == expect_exact_arguments(function, 1)
  IN  IF ~args.ok THEN args
      ELSE LET char_arg == expect_singular_character(args.value[1], "arg1")
           IN  IF ~char_arg.ok THEN char_arg
               ELSE Ok(Wrap("Integer", self_property,
                            Closure(builder, Absent(<<>>), char_arg.value, Absent(0))))

\* Calling the builder found in a table: build(self, build_ctx, property, function).
CallBuilder(self, builder, self_property, function) ==
  CASE builder.origin = "builtin" /\ builder.name = "current_operation" ->
         build_current_operation(self, builder, self_property, function)
    [] builder.origin = "builtin" /\ builder.name = "root" ->
         build_root(self, builder, self_property, function)
    [] builder.origin = "builtin" /\ builder.name = "id" ->
         build_id(self, builder, self_property, function)
    [] builder.origin = "builtin" /\ builder.name = "short" ->
         build_short(self, builder, self_property, function)
    [] builder.origin = "builtin" /\ builder.name \in {"description", "tags", "user"} ->
         NoArgBuilder("String", builder, self_property, function)
    [] builder.origin = "builtin" /\ builder.name = "time" ->
         NoArgBuilder("TimestampRange", builder, self_property, function)
    [] builder.origin = "HexCounter" /\ builder.name = "num_digits_in_id" ->
         NoArgBuilder("Integer", builder, self_property, function)
    [] builder.origin = "HexCounter" /\ builder.name = "num_char_in_id" ->
         build_num_char_in_id(self, builder, self_property, function)
    [] builder.origin = "core" /\ builder.name \in {"start", "end"} ->
         NoArgBuilder("Timestamp", builder, self_property, function)

\* CoreTemplateBuildFnTable::build_method: the core kind's own map.
CoreTemplateBuildFnTable_build_method(table, self, self_property, function) ==
  LET build == lookup_method(self_property.kind, table[self_property.kind], function)
  IN  IF ~build.ok THEN build
      ELSE CallBuilder(self, build.value, self_property, function)

\* build_method looking every domain receiver up in operation_methods.
build_method_one_table(self, self_property, function) ==
  IF self_property.kind \in CoreKinds THEN
    CoreTemplateBuildFnTable_build_method(self.build_fn_table.core, self,
                                          self_property, function)
  ELSE
    LET build == lookup_method("Operation", self.build_fn_table.operation_methods, function)
    IN  IF ~build.ok THEN build
        ELSE CallBuilder(self, build.value, self_property, function)

\* TemplateLanguage::build_method
build_method(self, self_property, function) ==
  IF self_property.kind \in CoreKinds THEN
    CoreTemplateBuildFnTable_build_method(self.build_fn_table.core, self,
                                          self_property, function)
  ELSE IF self_property.kind = "Operation" THEN
    LET build == lookup_method("Operation", self.build_fn_table.operation_methods, function)
    IN  IF ~build.ok THEN build
        ELSE CallBuilder(self, build.value, self_property, function)
  ELSE
    LET build == lookup_method("OperationId", self.build_fn_table.operation_id_methods,
                               function)
    IN  IF ~build.ok THEN build
        ELSE CallBuilder(self, build.value, self_property, function)

\* ----------------------------------------------------------------- casts

CastFn(receiver, name) == [origin |-> "cast", receiver |-> receiver, name |-> name]

\* IntoTemplate::into_template of a property of `kind`.
into_template(self) ==
  [kind |-> "Template",
   chain |-> Append(self.chain, PlainClosure(CastFn(self.kind, "into_template")))]

\* PlainTextFormattedProperty::new(template)
PlainTextFormattedProperty_new(template) ==
  [kind |-> "PlainText",
   chain |-> Append(template.chain, PlainClosure(CastFn("Template", "plain_text")))]

\* CoreTemplatePropertyKind's casts.
Core_try_into_boolean(self) ==
  IF self.kind = "Boolean" THEN Some(self)
  ELSE IF self.kind = "String" THEN
    Some(Wrap("Boolean", self, PlainClosure(CastFn("String", "is_non_empty"))))
  ELSE Absent(NoProperty)

Core_try_into_integer(self) ==
  IF self.kind = "Integer" THEN Some(self) ELSE Absent(NoProperty)

Core_try_into_template(self) == Some(into_template(self))

Core_try_into_plain_text(self) ==
  IF self.kind = "String" THEN Some(self)
  ELSE Some(PlainTextFormattedProperty_new(Core_try_into_template(self).value))

\* try_into_boolean coercing an operation id to "is not empty".
try_into_boolean_coercing(self) ==
  IF self.kind \in CoreKinds THEN Core_try_into_boolean(self)
  ELSE IF self.kind = "Operation" THEN Absent(NoProperty)
  ELSE Some(Wrap("Boolean", self, PlainClosure(CastFn("String", "is_non_empty"))))

\* impl IntoTemplateProperty for OperationTemplatePropertyKind
try_into_boolean(self) ==
  IF self.kind \in CoreKinds THEN Core_try_into_boolean(self)
  ELSE IF self.kind = "Operation" THEN Absent(NoProperty)
  ELSE Absent(NoProperty)

try_into_integer(self) ==
  IF self.kind \in CoreKinds THEN Core_try_into_integer(self) ELSE Absent(NoProperty)

try_into_template(self) ==
  IF self.kind \in CoreKinds THEN Core_try_into_template(self)
  ELSE IF self.kind = "Operation" THEN Absent(NoProperty)
  ELSE Some(into_template(self))

\* try_into_plain_text without the fallback through the template form.
try_into_plain_text_core_only(self) ==
  IF self.kind \in CoreKinds THEN Core_try_into_plain_text(self) ELSE Absent(NoProperty)

try_into_plain_text(self) ==
  IF self.kind \in CoreKinds THEN Core_try_into_plain_text(self)
  ELSE LET template == try_into_template(self)
       IN  IF ~template.some THEN Absent(NoProperty)
           ELSE Some(PlainTextFormattedProperty_new(template.value))

Casts == {"try_into_boolean", "try_into_integer", "try_into_plain_text", "try_into_template"}

Cast(self, cast) ==
  CASE cast = "try_into_boolean" -> try_into_boolean(self)
    [] cast = "try_into_integer" -> try_into_integer(self)
    [] cast = "try_into_plain_text" -> try_into_plain_text(self)
    [] cast = "try_into_template" -> try_into_template(self)

\* ---------------------------------------------- footer lines (footer.rs)

\* The longest message, in lines.
MaxLines == 4

\* char::is_whitespace, for the characters used here.
IsWhitespace(c) == c \in {" ", "\n", "\t", "\r"}

\* str::trim: without leading and trailing whitespace.
trim(str) ==
  LET kept == { i \in 1..Len(str) : ~IsWhitespace(str[i]) }
  IN  IF kept = {} THEN <<>>
      ELSE LET first == CHOOSE i \in kept : \A j \in kept : i <= j
               last_kept == CHOOSE i \in kept : \A j \in kept : i >= j
           IN  SubSeq(str, first, last_kept)

\* One line of str::lines: without its "\n", and without a "\r" before it.
strip_cr(line) ==
  IF Len(line) > 0 /\ line[Len(line)] = "\r" THEN SubSeq(line, 1, Len(line) - 1)
  ELSE line

RECURSIVE lines(_)
\* str::lines: split at "\n"; a final newline starts no further line.
lines(str) ==
  IF Len(str) = 0 THEN <<>>
  ELSE LET ends == { i \in 1..Len(str) : str[i] = "\n" }
       IN  IF ends = {} THEN <<str>>
           ELSE LET end == CHOOSE i \in ends : \A j \in ends : i <= j
                IN  <<strip_cr(SubSeq(str, 1, end - 1))>> \o lines(SubSeq(str, end + 1, Len(str)))

\* Iterator::rev, collected.
rev(seq) == [i \in 1..Len(seq) |-> seq[Len(seq) + 1 - i]]

\* str::split_once(": "): the text before and after the first ": ".
split_once(line) ==
  LET at == { i \in 1..(Len(line) - 1) : line[i] = ":" /\ line[i + 1] = " " }
  IN  IF at = {} THEN Absent(<<>>)
      ELSE LET i == CHOOSE i \in at : \A j \in at : i <= j
           IN  Some(<<SubSeq(line, 1, i - 1), SubSeq(line, i + 2, Len(line))>>)

\* IndexMap<String, Vec<String>>: entries [key, values] in insertion order.
IndexMap_new == <<>>

\* footer.entry(key).or_insert_with(Vec::new).push(value)
entry_push(map, key, value) ==
  IF \E i \in 1..Len(map) : map[i].key = key
    THEN [i \in 1..Len(map) |->
            IF map[i].key = key THEN [map[i] EXCEPT !.values = Append(@, value)]
            ELSE map[i]]
  ELSE Append(map, [key |-> key, values |-> <<value>>])

RECURSIVE footer_loop_skipping_blank(_, _, _)
\* The loop going on past an empty line in place of stopping at it.
footer_loop_skipping_blank(reversed, i, map) ==
  IF i > Len(reversed) THEN map
  ELSE IF Len(reversed[i]) = 0 THEN footer_loop_skipping_blank(reversed, i + 1, map)
  ELSE LET split == split_once(reversed[i])
       IN  IF ~split.some THEN map
           ELSE footer_loop_skipping_blank(reversed, i + 1,
                  entry_push(map, trim(split.value[1]), trim(split.value[2])))

RECURSIVE footer_loop(_, _, _)
\* for line in lines { ... }: from the i-th of the reversed lines on; stops
\* at an empty line and at a line without ": ".
footer_loop(reversed, i, map) ==
  IF i > Len(reversed) THEN map
  ELSE IF Len(reversed[i]) = 0 THEN map
  ELSE LET split == split_once(reversed[i])
       IN  IF ~split.some THEN map
           ELSE footer_loop(reversed, i + 1,
                            entry_push(map, trim(split.value[1]), trim(split.value[2])))

\* get_footer_lines taking a single line for a footer.
get_footer_lines_of_any_length(message) ==
  LET reversed == rev(lines(trim(message)))
      map == footer_loop(reversed, 1, IndexMap_new)
      in_order == [i \in 1..Len(map) |->
                     [key |-> rev(map)[i].key, values |-> rev(rev(map)[i].values)]]
  IN  IF Len(in_order) = 0 THEN Absent(<<>>) ELSE Some(in_order)

\* get_footer_lines(body)
get_footer_lines(message) ==
  LET reversed == rev(lines(trim(message)))
  IN  IF Len(reversed) <= 1 THEN Absent(<<>>)
      ELSE LET map == footer_loop(reversed, 1, IndexMap_new)
               in_order == [i \in 1..Len(map) |->
                              [key |-> rev(map)[i].key,
                               values |-> rev(rev(map)[i].values)]]
           IN  IF Len(in_order) = 0 THEN Absent(<<>>) ELSE Some(in_order)

\* Lines a message is made of: blank, body text, footer lines of the keys a
\* and b, and a footer line with blanks around its key and its value.
LinePool ==
  { <<>>,
    <<"x">>,
    <<"a", ":", " ", "1">>,
    <<"b", ":", " ", "2">>,
    <<"a", ":", " ", "3">>,
    <<" ", "b", " ", ":", " ", " ", "4", " ">> }

RECURSIVE JoinLines(_)
JoinLines(seq) ==
  IF Len(seq) = 0 THEN <<>>
  ELSE IF Len(seq) = 1 THEN seq[1]
  ELSE seq[1] \o <<"\n">> \o JoinLines(Tail(seq))

\* The messages of up to MaxLines lines.
Messages ==
  UNION { { JoinLines(seq) : seq \in [1..n -> LinePool] } : n \in 0..MaxLines }

NotCalled == [called |-> FALSE, result |-> Absent(<<>>)]

NoFooterCall == body = <<>> /\ footer = NotCalled

\* ------------------------------------------ gerrit send (gerrit/send.rs)

\* The commits of the repo besides the root commit, a chain root <- 1 <- 2.
NumCommits == 2

\* store.root_commit_id()
root_commit_id == 0

CommitIds == 0..NumCommits

\* The id of the commit written by rewriting `old`.
RewrittenId(old) == old + NumCommits

\* The length of a Gerrit change id: 'I' and 40 hex characters.
GerritIdLen == 41

GerritHashLen == 40

ChangeIdKey == <<"C", "h", "a", "n", "g", "e", "-", "I", "d">>

\* blake2b_hash(..).encode_hex(): hex characters that depend on the change
\* id alone.
hashed_id(change_id) ==
  [i \in 1..(2 * GerritHashLen) |-> HexChars[((change_id * 7 + i * i) % 16) + 1]]

\* format!("I{}", hashed_id.chars().take(40).collect::<String>())
gerrit_change_id(change_id) ==
  <<"I">> \o SubSeq(hashed_id(change_id), 1, GerritHashLen)

\* A `Change-Id: value` line.
ChangeIdLine(value) == ChangeIdKey \o <<":", " ">> \o value

\* The descriptions commits have: none, no footer, a footer without a
\* Change-Id, a Change-Id footer, a malformed one, and two of them.
Descriptions ==
  { <<>>,
    <<"x">>,
    JoinLines(<< <<"x">>, <<>>, <<"a", ":", " ", "1">>, <<>> >>),
    JoinLines(<< <<"x">>, <<>>, ChangeIdLine(gerrit_change_id(9)) >>),
    JoinLines(<< <<"x">>, <<>>, ChangeIdLine(<<"I", "1", "2">>) >>),
    JoinLines(<< <<"x">>, <<>>, ChangeIdLine(gerrit_change_id(9)),
                 ChangeIdLine(gerrit_change_id(8)) >>) }

\* A Commit: its parents, description and change id, and whether its tree is
\* that of its parent.
Commit(parents, description, change_id, is_empty) ==
  [parents |-> parents, description |-> description, change_id |-> change_id,
   empty |-> is_empty]

\* What a commit holds: a description and a change of its own, or neither.
CommitShapes ==
  { [description |-> d, empty |-> FALSE] : d \in Descriptions }
    \cup { [description |-> <<>>, empty |-> TRUE] }

\* The stores: every commit is the child of the one before it.
Stores ==
  { [id \in CommitIds |->
       IF id = root_commit_id THEN Commit(<<>>, <<>>, 0, TRUE)
       ELSE Commit(<<id - 1>>, d[id].description, id, d[id].empty)] :
      d \in [1..NumCommits -> CommitShapes] }

\* Commit::is_discardable: no description and no change.
is_discardable(commit) == commit.description = <<>> /\ commit.empty

\* The --for targets: main@origin, main@upstream (a remote the Git repo does
\* not have), glob:ma*@origin (not exact) and one that does not parse.
ForTargets ==
  { [parses |-> TRUE, exact |-> TRUE, branch |-> "main", remote |-> "origin"],
    [parses |-> TRUE, exact |-> TRUE, branch |-> "main", remote |-> "upstream"],
    [parses |-> TRUE, exact |-> FALSE, branch |-> "ma*", remote |-> "origin"],
    [parses |-> FALSE, exact |-> FALSE, branch |-> "", remote |-> ""] }

\* git_repo.remotes()
Remotes == {"origin"}

\* Where the command runs: in a repo backed by Git or not, with the
\* selected commits rewritable or not.
Environments ==
  { [git |-> TRUE, rewritable |-> TRUE],
    [git |-> FALSE, rewritable |-> TRUE],
    [git |-> TRUE, rewritable |-> FALSE] }

\* SendArgs and the environment of one run.
SendArgs ==
  { [revision |-> r, for_ |-> f, dry_run |-> d, env |-> e] :
      r \in (SUBSET CommitIds) \ {{}}, f \in ForTargets, d \in BOOLEAN,
      e \in Environments }

RECURSIVE SortedSeq(_)
\* The members of a set of ids, lowest first.
SortedSeq(ids) ==
  IF ids = {} THEN <<>>
  ELSE LET low == CHOOSE i \in ids : \A j \in ids : i <= j
       IN  <<low>> \o SortedSeq(ids \ {low})

\* Index::topo_order: parents before children; a commit's id is above its
\* parents'.
topo_order(ids) == SortedSeq(ids)

RECURSIVE IsAncestor(_, _, _)
\* `a` is `c` or an ancestor of it in `commits`.
IsAncestor(commits, a, c) ==
  \/ a = c
  \/ \E i \in 1..Len(commits[c].parents) : IsAncestor(commits, a, commits[c].parents[i])

\* Index::heads: the ids that are no ancestor of another of the ids.
heads(commits, ids) ==
  SortedSeq({ c \in ids : \A d \in ids \ {c} : ~IsAncestor(commits, c, d) })

\* The entry of old_to_new for `old`, if any.
old_to_new_get(map, old) ==
  IF \E i \in 1..Len(map) : map[i].old = old
    THEN Some((CHOOSE i \in 1..Len(map) : map[i].old = old))
  ELSE Absent(0)

\* The Change-Id footer, if there is one with a single well-formed value.
find_change_id_wellformed(footer_lines) ==
  IF footer_lines.some
     /\ \E i \in 1..Len(footer_lines.value) :
          /\ footer_lines.value[i].key = ChangeIdKey
          /\ Len(footer_lines.value[i].values) = 1
          /\ Len(footer_lines.value[i].values[1]) = GerritIdLen
    THEN Some(footer_lines.value[CHOOSE i \in 1..Len(footer_lines.value) :
                                   footer_lines.value[i].key = ChangeIdKey].values)
  ELSE Absent(<<>>)

\* The value of the Change-Id footer, if there is one:
\* footer.iter().find(|(key, _)| key == &"Change-Id")
find_change_id(footer_lines) ==
  IF footer_lines.some
     /\ \E i \in 1..Len(footer_lines.value) : footer_lines.value[i].key = ChangeIdKey
    THEN Some(footer_lines.value[CHOOSE i \in 1..Len(footer_lines.value) :
                                   footer_lines.value[i].key = ChangeIdKey].values)
  ELSE Absent(<<>>)

\* The blank between the description and the appended footer line.
spacing(footer_lines) ==
  IF footer_lines.some THEN
    IF Len(footer_lines.value) = 0 THEN <<"\n", "\n">> ELSE <<"\n">>
  ELSE <<"\n", "\n">>

\* format!("{}{}Change-Id: {}\n", description.trim(), spacing, gerrit_change_id)
new_description(description, footer_lines, change_id) ==
  trim(description) \o spacing(footer_lines) \o
    ChangeIdLine(gerrit_change_id(change_id)) \o <<"\n">>

\* The parents of the rewritten commit: each parent, or what it was mapped to.
new_parents(commit, map) ==
  [i \in 1..Len(commit.parents) |->
     LET at == old_to_new_get(map, commit.parents[i])
     IN  IF at.some THEN map[at.value].new ELSE commit.parents[i]]

Running == [done |-> FALSE, ok |-> FALSE, err |-> None]

Returned(outcome) == [done |-> TRUE, ok |-> outcome = "Ok", err |-> outcome]

NoArgs ==
  [revision |-> {}, for_ |-> CHOOSE f \in ForTargets : ~f.parses, dry_run |-> FALSE,
   env |-> CHOOSE e \in Environments : ~e.git]

NoSend ==
  /\ send = NoArgs
  /\ store = [id \in {root_commit_id} |-> Commit(<<>>, <<>>, 0, TRUE)]
  /\ pc = "idle"
  /\ todo = <<>>
  /\ old_to_new = <<>>
  /\ new_heads = <<>>
  /\ pushes = <<>>
  /\ warnings = <<>>
  /\ returned = Running

\* ------------------- jj commit and advance-branches (test_advance_branches.rs)

\* The `jj commit` commands of one run.
MaxCommitted == 3

BranchNames == {"test_branch", "second_branch"}

\* The revisions the tests name.
Revisions == {"@", "@-"}

\* The commit a revision names: @ is the last of the log, @- the one before.
resolve(commits, revset) ==
  IF revset = "@" THEN commits[Len(commits)] ELSE commits[Len(commits) - 1]

\* Where the commit is in the log.
position(commits, id) == CHOOSE i \in 1..Len(commits) : commits[i] = id

\* advance-branches.enabled alone, whatever advance-branches.overrides lists.
advance_enabled_for_any(settings, name) == settings.enabled

\* Whether `jj commit` advances the branch: advance-branches.enabled,
\* inverted for a branch that advance-branches.overrides lists.
advance_enabled_for(settings, name) ==
  IF name \in settings.overrides THEN ~settings.enabled ELSE settings.enabled

\* The branches `jj commit` is to advance: those on @- that the settings
\* advance.
advanceable_branches(settings, branches, commits) ==
  { name \in DOMAIN branches :
      /\ branches[name] = resolve(commits, "@-")
      /\ advance_enabled_for(settings, name) }

\* A jj command and how it ended.
Ran_jj(cmd, ok, advanced) == [cmd |-> cmd, ok |-> ok, advanced |-> advanced]

\* `jj git init repo`: the root commit and an empty working-copy commit, no
\* branch, advance-branches off.
git_init ==
  /\ repo_log = <<root_commit_id, 1>>
  /\ local_branches = <<>>
  /\ advance_branches = [enabled |-> FALSE, overrides |-> {}]
  /\ next_commit_id = 2
  /\ jj_cmd = Ran_jj("git init", TRUE, {})

NoWorkspace ==
  /\ repo_log = <<root_commit_id>>
  /\ local_branches = <<>>
  /\ advance_branches = [enabled |-> FALSE, overrides |-> {}]
  /\ next_commit_id = 1
  /\ jj_cmd = Ran_jj("none", TRUE, {})

\* ------------------------------------------------------------ the machine

\* The variants of OperationTemplatePropertyKind.
PropertyKinds == CoreKinds \cup {"Operation", "OperationId"}

\* Ids a binding is constructed with.
BindingIds == { PadId(p, MaxIdBytes) : p \in {<<>>, <<171, 193, 35>>} }

CurrentIds == { Some(PadId(<<171, 193, 35>>, MaxIdBytes)), Absent(<<>>) }

MergeNamePool == <<"m1", "m2", "m3", "m4">>

MergeNames == { MergeNamePool[i] : i \in 1..MaxMergeNames }

\* The dispatch tables of `origin` over MergeNames.
Tables(origin) ==
  { [core |-> [k \in CoreKinds |->
                 IF k = "String" THEN Builders(origin, "String", c) ELSE EmptyMap],
     operation_methods |-> Builders(origin, "Operation", o),
     operation_id_methods |-> Builders(origin, "OperationId", i)] :
      c \in SUBSET MergeNames, o \in SUBSET MergeNames, i \in SUBSET MergeNames }

\* No method name is in the same sub-table of both tables.
Disjoint(a, b) ==
  /\ \A k \in CoreKinds : (DOMAIN a.core[k]) \cap (DOMAIN b.core[k]) = {}
  /\ (DOMAIN a.operation_methods) \cap (DOMAIN b.operation_methods) = {}
  /\ (DOMAIN a.operation_id_methods) \cap (DOMAIN b.operation_id_methods) = {}

NotMerged == [done |-> FALSE, ab |-> empty, ba |-> empty]

NoEvaluation == [some |-> FALSE, context |-> None, result |-> None]

Init ==
  /\ \E root_op_id \in BindingIds, current_op_id \in CurrentIds, extension \in Extensions :
       /\ language = new(root_op_id, current_op_id, extension)
       /\ installed = extension
       /\ calls = new_calls(extension)
  /\ property = NoProperty
  /\ last = [op |-> "new"]
  /\ tableA = empty
  /\ tableB = empty
  /\ merged = NotMerged
  /\ evaluated = NoEvaluation
  /\ NoFooterCall
  /\ NoSend
  /\ NoWorkspace

\* OperationTemplateLanguage::new: another binding; properties built before
\* own their captured values and stay usable.
New ==
  /\ \E root_op_id \in BindingIds, current_op_id \in CurrentIds, extension \in Extensions :
       /\ language' = new(root_op_id, current_op_id, extension)
       /\ installed' = extension
       /\ calls' = new_calls(extension)
  /\ last' = [op |-> "new"]
  /\ UNCHANGED <<property, tableA, tableB, merged, evaluated, footer_vars, send_vars, workspace_vars>>

BuildSelf ==
  /\ property' = build_self
  /\ last' = [op |-> "build_self"]
  /\ evaluated' = NoEvaluation
  /\ UNCHANGED <<language, installed, tableA, tableB, merged, calls, footer_vars, send_vars, workspace_vars>>

\* build_method takes the receiver property by value.
BuildMethod ==
  /\ property.kind \in PropertyKinds
  /\ \E function \in FunctionCallNodes :
       LET result == build_method(language, property, function)
       IN  /\ property' = IF result.ok THEN result.value ELSE NoProperty
           /\ last' = [op |-> "build_method", receiver |-> property.kind,
                       function |-> function, result |-> result]
  /\ evaluated' = NoEvaluation
  /\ UNCHANGED <<language, installed, tableA, tableB, merged, calls, footer_vars, send_vars, workspace_vars>>

\* One of the four casts, which take the property by value.
TryInto ==
  /\ property.kind \in PropertyKinds
  /\ \E cast \in Casts :
       LET result == Cast(property, cast)
       IN  /\ property' = IF result.some THEN result.value ELSE NoProperty
           /\ last' = [op |-> cast, receiver |-> property.kind, self |-> property,
                       result |-> result]
  /\ evaluated' = NoEvaluation
  /\ UNCHANGED <<language, installed, tableA, tableB, merged, calls, footer_vars, send_vars, workspace_vars>>

\* Extracting the property's value (formatting the template) for an operation.
Eval ==
  /\ property # NoProperty
  /\ \E context \in Operations :
       last' = [op |-> "evaluate", context |-> context,
                result |-> Evaluate(property, context),
                ran |-> Ran(property, context)]
  /\ UNCHANGED <<language, installed, property, tableA, tableB, merged, evaluated, calls, footer_vars, send_vars, workspace_vars>>

\* cache_extension asking the extension to fill the map when it is called.
CacheExtension_lazy ==
  /\ \E type \in CacheTypes :
       LET filled ==
             [language EXCEPT !.cache_extensions =
                IF installed # None THEN build_cache_extensions(installed, @) ELSE @]
       IN  /\ language' = filled
           /\ calls' = IF installed # None THEN Append(calls, "build_cache_extensions")
                       ELSE calls
           /\ last' = [op |-> "cache_extension", type |-> type,
                       result |-> cache_extension(filled, type)]
  /\ UNCHANGED <<installed, property, tableA, tableB, merged, evaluated, footer_vars, send_vars, workspace_vars>>

CacheExtension ==
  /\ \E type \in CacheTypes :
       last' = [op |-> "cache_extension", type |-> type,
                result |-> cache_extension(language, type)]
  /\ UNCHANGED <<language, installed, property, tableA, tableB, merged, evaluated, calls, footer_vars, send_vars, workspace_vars>>

Next == New \/ BuildSelf \/ BuildMethod \/ TryInto \/ Eval \/ CacheExtension

Spec == Init /\ [][Next]_vars

\* Evaluating one property more than once: the first evaluation since the
\* property was built is kept, and a later one is of the same operation.
EvalFirst ==
  /\ property # NoProperty
  /\ ~evaluated.some
  /\ \E context \in Operations :
       LET result == Evaluate(property, context)
       IN  /\ evaluated' = [some |-> TRUE, context |-> context, result |-> result]
           /\ last' = [op |-> "evaluate", context |-> context, result |-> result,
                       ran |-> Ran(property, context)]
  /\ UNCHANGED <<language, installed, property, tableA, tableB, merged, calls, footer_vars, send_vars, workspace_vars>>

EvalAgain ==
  /\ property # NoProperty
  /\ evaluated.some
  /\ last' = [op |-> "evaluate_again", context |-> evaluated.context,
              result |-> Evaluate(property, evaluated.context)]
  /\ UNCHANGED <<language, installed, property, tableA, tableB, merged, evaluated, calls, footer_vars, send_vars, workspace_vars>>

NextRepeat == New \/ BuildSelf \/ BuildMethod \/ EvalFirst \/ EvalAgain

SpecRepeat == Init /\ [][NextRepeat]_vars

\* Merging two tables, in both orders.
InitMerge ==
  /\ language = new(PadId(<<>>, MaxIdBytes), Absent(<<>>), None)
  /\ installed = None
  /\ calls = new_calls(None)
  /\ property = NoProperty
  /\ last = [op |-> "new"]
  /\ tableA \in Tables("A")
  /\ tableB \in Tables("B")
  /\ Disjoint(tableA, tableB)
  /\ merged = NotMerged
  /\ evaluated = NoEvaluation
  /\ NoFooterCall
  /\ NoSend
  /\ NoWorkspace

Merge ==
  /\ ~merged.done
  /\ merged' = [done |-> TRUE, ab |-> merge(tableA, tableB), ba |-> merge(tableB, tableA)]
  /\ UNCHANGED <<language, installed, property, last, tableA, tableB, evaluated, calls, footer_vars, send_vars, workspace_vars>>

NextMerge == Merge

SpecMerge == InitMerge /\ [][NextMerge]_vars

\* get_footer_lines called on a message.
InitFooter ==
  /\ language = new(PadId(<<>>, MaxIdBytes), Absent(<<>>), None)
  /\ installed = None
  /\ calls = new_calls(None)
  /\ property = NoProperty
  /\ last = [op |-> "new"]
  /\ tableA = empty
  /\ tableB = empty
  /\ merged = NotMerged
  /\ evaluated = NoEvaluation
  /\ body \in Messages
  /\ footer = NotCalled
  /\ NoSend
  /\ NoWorkspace

GetFooterLines ==
  /\ ~footer.called
  /\ footer' = [called |-> TRUE, result |-> get_footer_lines(body)]
  /\ UNCHANGED <<language, installed, property, last, tableA, tableB, merged,
                 evaluated, calls, body, send_vars, workspace_vars>>

NextFooter == GetFooterLines

SpecFooter == InitFooter /\ [][NextFooter]_vars

\* `jj gerrit send`: cmd_send, from its checks to its last push.
InitSend ==
  /\ language = new(PadId(<<>>, MaxIdBytes), Absent(<<>>), None)
  /\ installed = None
  /\ calls = new_calls(None)
  /\ property = NoProperty
  /\ last = [op |-> "new"]
  /\ tableA = empty
  /\ tableB = empty
  /\ merged = NotMerged
  /\ evaluated = NoEvaluation
  /\ NoFooterCall
  /\ send \in SendArgs
  /\ store \in Stores
  /\ pc = "check"
  /\ todo = <<>>
  /\ old_to_new = <<>>
  /\ new_heads = <<>>
  /\ pushes = <<>>
  /\ warnings = <<>>
  /\ returned = Running
  /\ NoWorkspace

not_send_vars ==
  <<language, installed, property, last, tableA, tableB, merged, evaluated, calls,
    footer_vars, workspace_vars>>

\* The checks of lines 62-106, without the loop of lines 110-118.
check_send_keeping_discardable(args, commits) ==
  IF root_commit_id \in args.revision THEN "root commit"
  ELSE IF ~args.env.rewritable THEN "not rewritable"
  ELSE IF ~args.env.git THEN "no git repo"
  ELSE IF ~args.for_.parses THEN "target does not parse"
  ELSE IF ~args.for_.exact THEN "target not exact"
  ELSE IF args.for_.remote \notin Remotes THEN "no such remote"
  ELSE "Ok"

\* The first error of lines 62-118, or "Ok".
check_send(args, commits) ==
  IF root_commit_id \in args.revision THEN "root commit"
  ELSE IF ~args.env.rewritable THEN "not rewritable"
  ELSE IF ~args.env.git THEN "no git repo"
  ELSE IF ~args.for_.parses THEN "target does not parse"
  ELSE IF ~args.for_.exact THEN "target not exact"
  ELSE IF args.for_.remote \notin Remotes THEN "no such remote"
  ELSE IF \E c \in args.revision : is_discardable(commits[c]) THEN "discardable commit"
  ELSE "Ok"

\* Lines 62-118: the selection is resolved and checked.
Check ==
  /\ pc = "check"
  /\ LET outcome == check_send(send, store)
     IN  IF outcome = "Ok"
           THEN /\ pc' = "rewrite"
                /\ todo' = topo_order(send.revision)
                /\ UNCHANGED returned
         ELSE /\ pc' = "done"
              /\ returned' = Returned(outcome)
              /\ UNCHANGED todo
  /\ UNCHANGED <<send, store, old_to_new, new_heads, pushes, warnings, not_send_vars, workspace_vars>>

\* Lines 125-231: one turn of the loop over the selected commits.
RewriteOne ==
  /\ pc = "rewrite"
  /\ Len(todo) > 0
  /\ LET commit_id == Head(todo)
         original_commit == store[commit_id]
         footer_lines == get_footer_lines(original_commit.description)
         change_id == find_change_id(footer_lines)
     IN  IF change_id.some THEN
           /\ old_to_new' = Append(old_to_new,
                                   [old |-> commit_id, new |-> commit_id, dry |-> FALSE])
           /\ warnings' =
                IF Len(change_id.value) > 1
                  THEN Append(warnings, [commit |-> commit_id, text |-> "multiple"])
                ELSE IF Len(change_id.value[1]) # GerritIdLen
                        \/ Head(change_id.value[1]) # "I"
                  THEN Append(warnings, [commit |-> commit_id, text |-> "invalid"])
                ELSE warnings
           /\ UNCHANGED store
         ELSE IF send.dry_run THEN
           /\ old_to_new' = Append(old_to_new,
                                   [old |-> commit_id, new |-> commit_id, dry |-> TRUE])
           /\ UNCHANGED <<store, warnings>>
         ELSE
           LET new_id == RewrittenId(commit_id)
               new_commit ==
                 Commit(new_parents(original_commit, old_to_new),
                        new_description(original_commit.description, footer_lines,
                                        original_commit.change_id),
                        original_commit.change_id, original_commit.empty)
           IN  /\ store' = [id \in (DOMAIN store) \cup {new_id} |->
                              IF id = new_id THEN new_commit ELSE store[id]]
               /\ old_to_new' = Append(old_to_new,
                                       [old |-> commit_id, new |-> new_id, dry |-> FALSE])
               /\ UNCHANGED warnings
  /\ todo' = Tail(todo)
  /\ UNCHANGED <<send, pc, new_heads, pushes, returned, not_send_vars, workspace_vars>>

\* The heads found, and the pushes begun, dry run or not.
FindHeads_pushing_dry_run ==
  /\ pc = "rewrite"
  /\ Len(todo) = 0
  /\ new_heads' = heads(store, { old_to_new[i].new : i \in 1..Len(old_to_new) })
  /\ pc' = "push"
  /\ UNCHANGED <<send, store, todo, old_to_new, pushes, warnings, returned,
                 not_send_vars, workspace_vars>>

\* Lines 233-304: the transaction is finished, the heads are found and
\* listed, and a dry run returns.
FindHeads ==
  /\ pc = "rewrite"
  /\ Len(todo) = 0
  /\ new_heads' = heads(store, { old_to_new[i].new : i \in 1..Len(old_to_new) })
  /\ IF send.dry_run THEN pc' = "done" /\ returned' = Returned("Ok")
     ELSE pc' = "push" /\ UNCHANGED returned
  /\ UNCHANGED <<send, store, todo, old_to_new, pushes, warnings, not_send_vars, workspace_vars>>

\* What git::push_updates gives.
PushOutcomes == {"Ok", "RefUpdateRejected", "other error"}

\* Lines 310-353: one head is pushed to refs/for/<branch>.
PushOne ==
  /\ pc = "push"
  /\ Len(pushes) < Len(new_heads)
  /\ \E outcome \in PushOutcomes :
       /\ pushes' = Append(pushes, [head |-> new_heads[Len(pushes) + 1],
                                    remote |-> send.for_.remote,
                                    qualified_name |-> <<"refs/for/", send.for_.branch>>,
                                    outcome |-> outcome])
       /\ warnings' = IF outcome = "RefUpdateRejected"
                        THEN Append(warnings, [commit |-> new_heads[Len(pushes) + 1],
                                               text |-> "rejected"])
                      ELSE warnings
       /\ IF outcome = "other error"
            THEN pc' = "done" /\ returned' = Returned("push failed")
          ELSE UNCHANGED <<pc, returned>>
  /\ UNCHANGED <<send, store, todo, old_to_new, new_heads, not_send_vars, workspace_vars>>

\* Line 355: Ok(()) after the last push.
Return ==
  /\ pc = "push"
  /\ Len(pushes) = Len(new_heads)
  /\ pc' = "done"
  /\ returned' = Returned("Ok")
  /\ UNCHANGED <<send, store, todo, old_to_new, new_heads, pushes, warnings,
                 not_send_vars, workspace_vars>>

NextSend == Check \/ RewriteOne \/ FindHeads \/ PushOne \/ Return

SpecSend == InitSend /\ [][NextSend]_vars

\* A workspace made by `jj git init repo`, and the jj commands of the tests.
InitCommit ==
  /\ language = new(PadId(<<>>, MaxIdBytes), Absent(<<>>), None)
  /\ installed = None
  /\ calls = new_calls(None)
  /\ property = NoProperty
  /\ last = [op |-> "new"]
  /\ tableA = empty
  /\ tableB = empty
  /\ merged = NotMerged
  /\ evaluated = NoEvaluation
  /\ NoFooterCall
  /\ NoSend
  /\ git_init

not_workspace_vars ==
  <<language, installed, property, last, tableA, tableB, merged, evaluated, calls,
    footer_vars, send_vars>>

\* jj config set --repo advance-branches.enabled <value>
set_advance_branches ==
  /\ \E value \in BOOLEAN :
       advance_branches' = [advance_branches EXCEPT !.enabled = value]
  /\ jj_cmd' = Ran_jj("config set", TRUE, {})
  /\ UNCHANGED <<repo_log, local_branches, next_commit_id, not_workspace_vars>>

\* jj config set --repo advance-branches.overrides [<names>]
set_advance_branches_overrides ==
  /\ \E overrides \in SUBSET BranchNames :
       advance_branches' = [advance_branches EXCEPT !.overrides = overrides]
  /\ jj_cmd' = Ran_jj("config set", TRUE, {})
  /\ UNCHANGED <<repo_log, local_branches, next_commit_id, not_workspace_vars>>

\* jj branch create [-r <rev>] <name>, for a name no branch has.
BranchCreate ==
  /\ \E name \in BranchNames \ DOMAIN local_branches, revset \in Revisions :
       local_branches' =
         [b \in (DOMAIN local_branches) \cup {name} |->
            IF b = name THEN resolve(repo_log, revset) ELSE local_branches[b]]
  /\ jj_cmd' = Ran_jj("branch create", TRUE, {})
  /\ UNCHANGED <<repo_log, advance_branches, next_commit_id, not_workspace_vars>>

\* jj branch set <name> -r <rev>, moving a branch of the log forward.
BranchSet ==
  /\ \E name \in DOMAIN local_branches, revset \in Revisions :
       /\ \E i \in 1..Len(repo_log) : repo_log[i] = local_branches[name]
       /\ position(repo_log, local_branches[name])
            < position(repo_log, resolve(repo_log, revset))
       /\ local_branches' = [local_branches EXCEPT ![name] = resolve(repo_log, revset)]
  /\ jj_cmd' = Ran_jj("branch set", TRUE, {})
  /\ UNCHANGED <<repo_log, advance_branches, next_commit_id, not_workspace_vars>>

\* jj commit -m=<description>: @ is rewritten with the description and
\* becomes @-, under a new empty @; the branches on @ follow it; the branch to
\* advance moves from the old @- onto it; with two branches or more to
\* advance the command refuses and changes nothing.
CommitCmd ==
  /\ Len(repo_log) < MaxCommitted + 2
  /\ LET advancing == advanceable_branches(advance_branches, local_branches, repo_log)
         committed == next_commit_id
         new_wc == next_commit_id + 1
     IN  IF Cardinality(advancing) > 1 THEN
           /\ jj_cmd' = Ran_jj("commit", FALSE, advancing)
           /\ UNCHANGED <<repo_log, local_branches, next_commit_id>>
         ELSE
           /\ repo_log' = SubSeq(repo_log, 1, Len(repo_log) - 1) \o <<committed, new_wc>>
           /\ local_branches' =
                [b \in DOMAIN local_branches |->
                   IF b \in advancing \/ local_branches[b] = resolve(repo_log, "@")
                     THEN committed
                   ELSE local_branches[b]]
           /\ next_commit_id' = next_commit_id + 2
           /\ jj_cmd' = Ran_jj("commit", TRUE, advancing)
  /\ UNCHANGED <<advance_branches, not_workspace_vars>>

NextCommit ==
  \/ set_advance_branches
  \/ set_advance_branches_overrides
  \/ BranchCreate
  \/ BranchSet
  \/ CommitCmd

SpecCommit == InitCommit /\ [][NextCommit]_vars

\* ---------------------------------------------------------------- claims

Min(a, b) == IF a <= b THEN a ELSE b

\* The method names registered for receivers of `kind` in a binding
\* constructed with `ext`, read off the tables' insert calls.
RegisteredNames(kind, ext) ==
  IF kind = "Operation" THEN
    {"current_operation", "description", "id", "tags", "time", "user", "root"} \cup
    (IF ext = "HexCounter" THEN {"num_digits_in_id", "num_char_in_id"} ELSE {})
  ELSE IF kind = "OperationId" THEN {"short"}
  ELSE IF kind = "TimestampRange" THEN {"start", "end"}
  ELSE {}

\* The property is self.<name>() built by `origin`'s builder.
IsMethodOfSelf(prop, origin, name) ==
  /\ Len(prop.chain) = 1
  /\ prop.chain[1].fn.origin = origin
  /\ prop.chain[1].fn.name = name

\* The property is self.id().short(...).
IsShort(prop) ==
  /\ prop.kind = "String"
  /\ Len(prop.chain) = 2
  /\ prop.chain[1].fn.origin = "builtin" /\ prop.chain[1].fn.name = "id"
  /\ prop.chain[2].fn.origin = "builtin" /\ prop.chain[2].fn.name = "short"

\* C1: a method name that is not registered for the receiver's kind makes
\* build_method fail at once with a parse error naming that method, and no
\* property is produced -- also when the name is registered for another kind.
C1_UnknownMethodIsBuildError ==
  (/\ last.op = "build_method"
   /\ last.function.name \notin RegisteredNames(last.receiver, installed))
  => /\ ~last.result.ok
     /\ last.result.err.kind = "NoSuchMethod"
     /\ last.result.err.name = last.function.name
     /\ property = NoProperty

\* `short` called on an Operation, `root` on an OperationId and `id` on a
\* core kind have all been refused.
C1_Witness ==
  /\ last.op = "build_method"
  /\ ~last.result.ok
  /\ last.result.err.kind = "NoSuchMethod"
  /\ \/ last.receiver = "OperationId" /\ last.function.name = "root"
     \/ last.receiver = "Operation" /\ last.function.name = "short"

\* C2: short(n), n >= 0, evaluates to the first min(n, L) characters of the
\* id's hex rendering of length L, and short() to the first min(12, L); for
\* the id abc1230000... short() is abc123000000 and short(4) is abc1.
C2_ShortIsHexPrefix ==
  (/\ last.op = "evaluate"
   /\ IsShort(property)
   /\ (property.chain[2].len.some => property.chain[2].len.value >= 0))
  => LET len == property.chain[2].len
         n == IF len.some THEN len.value ELSE 12
         full == hex(last.context.id)
         out == last.result.value
     IN  /\ last.result.ok
         /\ Len(out) = Min(n, Len(full))
         /\ \A i \in 1..Len(out) : out[i] = full[i]
         /\ (last.context.id = PadId(<<171, 193, 35>>, MaxIdBytes) /\ ~len.some)
              => out = <<"a", "b", "c", "1", "2", "3", "0", "0", "0", "0", "0", "0">>
         /\ (last.context.id = PadId(<<171, 193, 35>>, MaxIdBytes) /\ len = Some(4))
              => out = <<"a", "b", "c", "1">>

\* short(n) has been evaluated with n beyond the hex length.
C2_Witness ==
  /\ last.op = "evaluate"
  /\ IsShort(property)
  /\ property.chain[2].len.some
  /\ property.chain[2].len.value > Len(hex(last.context.id))
  /\ last.result.ok
  /\ last.result.value = hex(last.context.id)

\* C3: the property built by root() is true for exactly the operations whose
\* id is the root id of the binding that built it, whatever their parents;
\* a binding constructed afterwards does not change that.
C3_RootIffRootId ==
  /\ (/\ last.op = "build_method" /\ last.result.ok
      /\ last.receiver = "Operation" /\ last.function.name = "root")
     => \A context \in Operations :
          Evaluate(property, context) = Ok(context.id = language.root_op_id)
  /\ (/\ last.op = "evaluate"
      /\ property.kind = "Boolean" /\ IsMethodOfSelf(property, "builtin", "root"))
     => last.result = Ok(last.context.id = property.chain[1].cap_id.value)

\* root() has been evaluated to false on an operation that has no parent.
C3_Witness ==
  /\ last.op = "evaluate"
  /\ property.kind = "Boolean" /\ IsMethodOfSelf(property, "builtin", "root")
  /\ last.context.parents = {}
  /\ last.context.id # property.chain[1].cap_id.value
  /\ last.result = Ok(FALSE)

\* C4: the property built by current_operation() is false everywhere when
\* the binding that built it has no current operation id, and otherwise true
\* for exactly the operations with that id; the id is the one the binding
\* had when the method was built.
C4_CurrentOperationIffCurrentId ==
  /\ (/\ last.op = "build_method" /\ last.result.ok
      /\ last.receiver = "Operation" /\ last.function.name = "current_operation")
     => /\ property.chain[1].cap_id = language.current_op_id
        /\ \A context \in Operations :
             Evaluate(property, context) =
               Ok(IF language.current_op_id.some
                  THEN context.id = language.current_op_id.value
                  ELSE FALSE)
  /\ (/\ last.op = "evaluate"
      /\ property.kind = "Boolean"
      /\ IsMethodOfSelf(property, "builtin", "current_operation"))
     => LET captured == property.chain[1].cap_id
        IN  last.result = Ok(IF captured.some THEN last.context.id = captured.value
                             ELSE FALSE)

\* current_operation() built by a binding with a current id has been
\* evaluated to true under a later binding that has none.
C4_Witness ==
  /\ last.op = "evaluate"
  /\ property.kind = "Boolean"
  /\ IsMethodOfSelf(property, "builtin", "current_operation")
  /\ property.chain[1].cap_id.some
  /\ ~language.current_op_id.some
  /\ last.result = Ok(TRUE)

\* The cast of CoreTemplatePropertyKind that `cast` delegates to.
CoreCast(self, cast) ==
  CASE cast = "try_into_boolean" -> Core_try_into_boolean(self)
    [] cast = "try_into_integer" -> Core_try_into_integer(self)
    [] cast = "try_into_plain_text" -> Core_try_into_plain_text(self)
    [] cast = "try_into_template" -> Core_try_into_template(self)

\* C5: no cast coerces a domain-kind property: Operation and OperationId
\* have no boolean and no integer form, Operation has no template and no
\* plain-text form either, and a core property gets the core kind's answer.
C5_NoCoercingCast ==
  last.op \in Casts =>
    /\ (last.receiver \in {"Operation", "OperationId"}
        /\ last.op \in {"try_into_boolean", "try_into_integer"})
       => (~last.result.some /\ property = NoProperty)
    /\ (last.receiver = "Operation"
        /\ last.op \in {"try_into_template", "try_into_plain_text"})
       => (~last.result.some /\ property = NoProperty)
    /\ last.receiver \in CoreKinds => last.result = CoreCast(last.self, last.op)

\* An OperationId property has been asked for its boolean form and an
\* Operation property for its plain text.
C5_Witness ==
  /\ last.op \in Casts
  /\ ~last.result.some
  /\ \/ last.receiver = "OperationId" /\ last.op = "try_into_boolean"
     \/ last.receiver = "Operation" /\ last.op = "try_into_plain_text"

\* The property is the plain-text form of self.id().
IsPlainTextOfId(prop) ==
  /\ prop.kind = "PlainText"
  /\ Len(prop.chain) = 3
  /\ prop.chain[1].fn.origin = "builtin" /\ prop.chain[1].fn.name = "id"
  /\ prop.chain[2].fn.name = "into_template"
  /\ prop.chain[3].fn.name = "plain_text"

\* C6: a non-core property has a plain-text form exactly when it has a
\* template form, the plain text is what the template form writes for the
\* same operation, and the plain text of an OperationId is its full hex.
C6_PlainTextIsTemplateText ==
  /\ (last.op = "try_into_plain_text" /\ last.receiver \notin CoreKinds)
     => LET template == try_into_template(last.self)
        IN  /\ last.result.some <=> template.some
            /\ last.result.some =>
                 \A context \in Operations :
                   /\ Evaluate(last.result.value, context).ok
                   /\ Evaluate(last.result.value, context).value =
                        Evaluate(template.value, context).value
  /\ (last.op = "evaluate" /\ IsPlainTextOfId(property))
     => /\ last.result.ok
        /\ Len(last.result.value) = 2 * Len(last.context.id)
        /\ \A i \in 1..Len(last.context.id) :
             /\ last.result.value[2 * i - 1] = HexChars[(last.context.id[i] \div 16) + 1]
             /\ last.result.value[2 * i] = HexChars[(last.context.id[i] % 16) + 1]

\* The plain text of an id longer than 12 hex characters has been evaluated.
C6_Witness ==
  /\ last.op = "evaluate"
  /\ IsPlainTextOfId(property)
  /\ last.result.ok
  /\ Len(last.result.value) > 12

\* The names of a method map.
Names(map) == DOMAIN map

\* `m` is the union of the method maps `a` and `b`, keyed by name.
IsUnion(m, a, b) ==
  /\ Names(m) = Names(a) \cup Names(b)
  /\ \A n \in Names(a) : m[n] = a[n]
  /\ \A n \in Names(b) : m[n] = b[n]

\* C7: for tables with no method name in common in any sub-table, merging
\* in either order gives the same table, each of whose three sub-tables is
\* the union of the two corresponding sub-tables and of nothing else.
C7_MergeIsCommutativeUnion ==
  (merged.done /\ Disjoint(tableA, tableB)) =>
    /\ merged.ab = merged.ba
    /\ \A k \in CoreKinds : IsUnion(merged.ab.core[k], tableA.core[k], tableB.core[k])
    /\ IsUnion(merged.ab.operation_methods,
               tableA.operation_methods, tableB.operation_methods)
    /\ IsUnion(merged.ab.operation_id_methods,
               tableA.operation_id_methods, tableB.operation_id_methods)

\* Two tables that differ from sub-table to sub-table have been merged.
C7_Witness ==
  /\ merged.done
  /\ Names(tableA.operation_methods) # {}
  /\ Names(tableB.operation_methods) # {}
  /\ Names(tableB.operation_methods) # Names(tableB.operation_id_methods)
  /\ Names(tableA.core["String"]) # {}

\* C8: a binding constructed with an extension resolves every builtin name
\* and every name of the extension's table for the receiver's kind; one
\* constructed with no extension, or with an extension whose table is
\* empty, has exactly the builtin method set.
C8_ExtensionMethodsResolve ==
  /\ Names(language.build_fn_table.operation_methods) =
       RegisteredNames("Operation", installed)
  /\ Names(language.build_fn_table.operation_id_methods) =
       RegisteredNames("OperationId", installed)
  /\ installed # "HexCounter" => language.build_fn_table = builtin
  /\ (last.op = "build_method"
      /\ last.function.name \in RegisteredNames(last.receiver, installed))
     => /\ ~last.result.ok => last.result.err.kind # "NoSuchMethod"
        /\ (last.function.args = <<>> /\ last.function.name # "num_char_in_id")
             => last.result.ok

\* Under the HexCounter extension both id() and num_digits_in_id() have
\* been built on an Operation receiver.
C8_Witness ==
  /\ installed = "HexCounter"
  /\ last.op = "build_method"
  /\ last.receiver = "Operation"
  /\ last.function.name = "num_digits_in_id"
  /\ last.result.ok

\* The types the extension's build_cache_extensions stores.
StoredTypes(ext) == IF ext = "IndexCache" THEN {"OpIndex"} ELSE {}

\* C9: cache_extension::<T>() is absent for every type the extension did
\* not store: for every type without an extension and with HexCounter.
C9_UnstoredTypeIsAbsent ==
  last.op = "cache_extension" =>
    /\ last.type \notin StoredTypes(installed) => last.result = Absent(None)
    /\ installed \in {None, "HexCounter"} => ~last.result.some

\* A type that was not stored has been looked up in a binding whose
\* extension stored another one.
C9_Witness ==
  /\ last.op = "cache_extension"
  /\ installed = "IndexCache"
  /\ last.type = "Unstored"
  /\ ~last.result.some

\* The property is self.num_digits_in_id() of HexCounter.
IsNumDigits(prop) ==
  prop.kind = "Integer" /\ IsMethodOfSelf(prop, "HexCounter", "num_digits_in_id")

\* How many positions of `str` hold a digit.
DigitPositions(str) == Cardinality({ i \in 1..Len(str) : str[i] \in Digits })

\* C10 as stated: num_digits_in_id() is the number of ASCII digits in the
\* full hex rendering, and it is 6 for an id whose hex begins a1b2c3d4e5f6.
C10_AsStated ==
  (last.op = "evaluate" /\ IsNumDigits(property)) =>
    /\ last.result = Ok(DigitPositions(hex(last.context.id)))
    /\ (Len(last.context.id) >= 6
        /\ SubSeq(last.context.id, 1, 6) = <<161, 178, 195, 212, 229, 246>>)
       => last.result = Ok(6)

\* C10: num_digits_in_id() is the number of ASCII digits in the full hex
\* rendering of the operation id; it is 6 for the id whose hex is
\* a1b2c3d4e5f6 and nothing more.
C10_NumDigitsCountsHexDigits ==
  (last.op = "evaluate" /\ IsNumDigits(property)) =>
    /\ last.result = Ok(DigitPositions(hex(last.context.id)))
    /\ last.context.id = <<161, 178, 195, 212, 229, 246>> => last.result = Ok(6)

\* num_digits_in_id() has been evaluated on an id with digits and letters.
C10_Witness ==
  /\ last.op = "evaluate"
  /\ IsNumDigits(property)
  /\ last.result.ok
  /\ last.result.value > 0
  /\ last.result.value < Len(hex(last.context.id))

\* The property is self.num_char_in_id(ch) of HexCounter.
IsNumChar(prop) ==
  prop.kind = "Integer" /\ IsMethodOfSelf(prop, "HexCounter", "num_char_in_id")

\* How many positions of `str` hold the character `ch`.
CharPositions(str, ch) == Cardinality({ i \in 1..Len(str) : str[i] = ch })

\* The argument list is one string literal of exactly one character.
IsOneCharacter(args) ==
  Len(args) = 1 /\ args[1].type = "String" /\ Len(args[1].str) = 1

\* C11: under HexCounter, num_char_in_id builds if and only if it is given
\* exactly one argument that is a string literal of one character, and then
\* evaluates to the number of times that character occurs in the id's hex; a
\* literal of no or of several characters is a parse error at build time
\* marking the argument, and no property is produced.
C11_NumCharInIdArgument ==
  /\ (/\ last.op = "build_method" /\ last.receiver = "Operation"
      /\ installed = "HexCounter" /\ last.function.name = "num_char_in_id")
     => LET args == last.function.args
        IN  /\ last.result.ok <=> IsOneCharacter(args)
            /\ last.result.ok =>
                 /\ IsNumChar(property)
                 /\ \A context \in Operations :
                      Evaluate(property, context) =
                        Ok(CharPositions(hex(context.id), args[1].str[1]))
            /\ (Len(args) = 1 /\ args[1].type = "String" /\ Len(args[1].str) # 1)
                 => /\ ~last.result.ok
                    /\ last.result.err.kind = "UnexpectedExpression"
                    /\ last.result.err.span = "arg1"
                    /\ property = NoProperty
  /\ (last.op = "evaluate" /\ IsNumChar(property))
     => last.result = Ok(CharPositions(hex(last.context.id), property.chain[1].cap_ch))

\* num_char_in_id('a0') has been refused when it was built.
C11_Witness ==
  /\ last.op = "build_method"
  /\ installed = "HexCounter"
  /\ last.receiver = "Operation"
  /\ last.function.name = "num_char_in_id"
  /\ Len(last.function.args) = 1
  /\ last.function.args[1].type = "String"
  /\ Len(last.function.args[1].str) = 2
  /\ ~last.result.ok
  /\ last.result.err.span = "arg1"

\* The arguments `name` accepts: none, but for short's optional integer and
\* num_char_in_id's one-character string literal.
ValidArguments(name, args) ==
  CASE name = "short" -> Len(args) = 0 \/ (Len(args) = 1 /\ args[1].type = "Integer")
    [] name = "num_char_in_id" -> IsOneCharacter(args)
    [] OTHER -> Len(args) = 0

\* A method registered for the receiver has been built with valid arguments.
C12_Built ==
  (/\ last.op = "build_method"
   /\ last.function.name \in RegisteredNames(last.receiver, installed)
   /\ ValidArguments(last.function.name, last.function.args))
  => (last.result.ok /\ property = last.result.value)

\* A later evaluation gives what the first one of the same operation gave.
C12_Repeated ==
  last.op = "evaluate_again" =>
    (last.context = evaluated.context /\ last.result = evaluated.result)

\* An evaluation leaves the binding and the property as they were.
C12_Frame ==
  last'.op \in {"evaluate", "evaluate_again"} =>
    (language' = language /\ installed' = installed /\ property' = property)

IsTags(prop) == prop.kind = "String" /\ IsMethodOfSelf(prop, "builtin", "tags")

\* The line written for one tag.
TagLine(tag) == tag[1] \o <<":", " ">> \o tag[2]

RECURSIVE LineStart(_, _)
\* Where the line of the i-th tag starts in the text: after the lines before
\* it and one newline for each.
LineStart(tags, i) ==
  IF i = 1 THEN 1 ELSE LineStart(tags, i - 1) + Len(TagLine(tags[i - 1])) + 1

C14_Evaluated ==
  (last.op = "evaluate" /\ IsShort(property)) =>
    LET receiver == Evaluate([kind |-> "OperationId", chain |-> <<property.chain[1]>>],
                             last.context)
        len == ExtractLen(property.chain[2].len)
        given == property.chain[2].len.some
    IN  /\ ~receiver.ok =>
             (last.result = receiver /\ last.ran = <<>>)
        /\ (receiver.ok /\ ~len.ok) =>
             (last.result = len /\ last.ran = <<"id", "len">>)
        /\ (receiver.ok /\ len.ok) =>
             /\ last.result.ok
             /\ last.ran = IF given THEN <<"id", "len", "short">> ELSE <<"id", "short">>

Times(log, call) == Cardinality({ i \in 1..Len(log) : log[i] = call })

\* The calls made for the binding in use.
C15_CalledOnce ==
  /\ installed # None =>
       /\ Times(calls, "build_fn_table") = 1
       /\ Times(calls, "build_cache_extensions") = 1
       /\ \E i, j \in 1..Len(calls) :
            i < j /\ calls[i] = "merge" /\ calls[j] = "build_cache_extensions"
  /\ installed = None => calls = <<>>

\* A call on the binding that is not `new` leaves the binding as it is.
C15_Fixed ==
  last'.op # "new" => (language' = language /\ calls' = calls)

\* C15: constructing a binding with an extension calls build_fn_table and
\* build_cache_extensions once each, the merge of the table coming before
\* build_cache_extensions; no build_self, build_method, cast, evaluation or
\* cache_extension call changes the root id, the current id, the dispatch
\* table or the extensions map, or calls the extension again.
C15_ExtensionCalledOnceBindingFixed ==
  []C15_CalledOnce /\ [][C15_Fixed]_vars

\* cache_extension has returned what the extension stored when the binding
\* was constructed.
C15_Witness ==
  /\ last.op = "cache_extension"
  /\ installed = "IndexCache"
  /\ last.result.some
  /\ calls = <<"build_fn_table", "merge", "build_cache_extensions">>

\* The call gives a builtin method more arguments than it takes.
HasExtraArguments(receiver, function) ==
  \/ /\ receiver = "Operation"
     /\ function.name \in
          {"current_operation", "description", "id", "tags", "time", "user", "root"}
     /\ Len(function.args) >= 1
  \/ /\ receiver = "OperationId"
     /\ function.name = "short"
     /\ Len(function.args) >= 2

\* C16: a builtin Operation method called with one argument or more, and
\* short called with two or more, is a parse error of build_method about
\* the arguments, and no property is produced.
C16_ExtraArgumentsAreBuildErrors ==
  (last.op = "build_method" /\ HasExtraArguments(last.receiver, last.function)) =>
    /\ ~last.result.ok
    /\ last.result.err.kind = "InvalidArguments"
    /\ last.result.err.name = last.function.name
    /\ property = NoProperty

\* tags('a') has been refused when it was built.
C16_Witness ==
  /\ last.op = "build_method"
  /\ last.receiver = "Operation"
  /\ last.function.name = "tags"
  /\ last.function.args = <<StringNode(<<"a">>)>>
  /\ ~last.result.ok
  /\ property = NoProperty

\* The message has non-blank text on both sides of some newline: trimmed,
\* it has two lines or more.
HasInnerNewline(message) ==
  \E i, j, k \in 1..Len(message) :
    /\ i < j /\ j < k
    /\ ~IsWhitespace(message[i])
    /\ message[j] = "\n"
    /\ ~IsWhitespace(message[k])

\* C17: get_footer_lines returns None for every message that, trimmed, has
\* at most one line, also when that line has the `key: value` shape.
C17_SingleLineHasNoFooter ==
  (footer.called /\ ~HasInnerNewline(body)) => ~footer.result.some

\* A message whose only line is `a: 1`, with blank lines around it, has been
\* given and has no footer.
C17_Witness ==
  /\ footer.called
  /\ body = <<"\n", "a", ":", " ", "1", "\n">>
  /\ ~footer.result.some

\* The line has the `key: value` shape.
IsFooterLine(line) ==
  \E i \in 1..(Len(line) - 1) : line[i] = ":" /\ line[i + 1] = " "

\* The lines of the trimmed message.
TrimmedLines(message) == lines(trim(message))

\* The first line of the trailing block: every line from it to the last one
\* is a footer line, and the line before it, if any, is not.
BlockStart(text) ==
  CHOOSE s \in 1..(Len(text) + 1) :
    /\ \A i \in s..Len(text) : IsFooterLine(text[i])
    /\ s > 1 => ~IsFooterLine(text[s - 1])

\* The key and the value of a footer line.
KeyOf(line) == trim(split_once(line).value[1])

ValueOf(line) == trim(split_once(line).value[2])

\* The values reported, over all keys.
ValueCount(map) ==
  LET RECURSIVE Sum(_)
      Sum(i) == IF i = 0 THEN 0 ELSE Len(map[i].values) + Sum(i - 1)
  IN  Sum(Len(map))

\* C18: for a message of two lines or more, get_footer_lines reports the
\* lines of the trailing block and no other: the lines after the last line
\* that is empty or has no `: `; a `key: value` line above that line is not
\* in the result, and when the last line is no footer line there is none.
C18_OnlyTrailingBlock ==
  (footer.called /\ HasInnerNewline(body)) =>
    LET text == TrimmedLines(body)
        start == BlockStart(text)
        block == start..Len(text)
    IN  /\ footer.result.some <=> block # {}
        /\ footer.result.some =>
             LET map == footer.result.value
             IN  /\ ValueCount(map) = Cardinality(block)
                 /\ \A i \in block :
                      \E e \in 1..Len(map) :
                        /\ map[e].key = KeyOf(text[i])
                        /\ \E v \in 1..Len(map[e].values) :
                             map[e].values[v] = ValueOf(text[i])

\* A message with a `key: value` line above a blank line and one below it
\* has been given; only the lower one is reported.
C18_Witness ==
  /\ footer.called
  /\ body = <<"x", "\n", "a", ":", " ", "1", "\n", "\n", "b", ":", " ", "2">>
  /\ footer.result = Some(<<[key |-> <<"b">>, values |-> <<<<"2">>>>]>>)

\* The lines of the block that carry `key`, top to bottom.
LinesOfKey(text, block, key) == { i \in block : KeyOf(text[i]) = key }

\* The i-th smallest member of a set of numbers.
Nth(set, i) == CHOOSE n \in set : Cardinality({ m \in set : m <= n }) = i

\* For each key reported, its values are those of its lines, top to bottom.
ValuesInLineOrder(map, text, block) ==
  \A e \in 1..Len(map) :
    LET own == LinesOfKey(text, block, map[e].key)
    IN  /\ Len(map[e].values) = Cardinality(own)
        /\ \A v \in 1..Len(map[e].values) :
             map[e].values[v] = ValueOf(text[Nth(own, v)])

\* The keys reported are in the order of their first lines, top to bottom.
KeysInOrderOfFirstLine(map, text, block) ==
  \A d, e \in 1..Len(map) :
    d < e => Nth(LinesOfKey(text, block, map[d].key), 1)
               < Nth(LinesOfKey(text, block, map[e].key), 1)

\* C19: for a message with a footer block, get_footer_lines returns the keys
\* in the order of their first appearance in the message, and for each key
\* all of its values in the order of their lines, also when the lines of a
\* repeated key are not adjacent.
C19_AsStated ==
  (footer.called /\ footer.result.some) =>
    LET text == TrimmedLines(body)
        block == BlockStart(text)..Len(text)
        map == footer.result.value
    IN  /\ KeysInOrderOfFirstLine(map, text, block)
        /\ ValuesInLineOrder(map, text, block)

\* The commits old_to_new maps.
Mapped == { old_to_new[i].old : i \in 1..Len(old_to_new) }

\* C20: with --dry-run, gerrit send writes no commit and pushes nothing at
\* any point of the run, maps every commit it visits to itself, and, when
\* the selection and the target pass the checks, returns Ok with every
\* selected commit mapped to itself and no push attempted.
C20_DryRunRewritesAndPushesNothing ==
  send.dry_run =>
    /\ store \in Stores
    /\ pushes = <<>>
    /\ \A i \in 1..Len(old_to_new) : old_to_new[i].new = old_to_new[i].old
    /\ (pc = "done" /\ check_send(send, store) = "Ok") =>
         /\ returned = Returned("Ok")
         /\ Mapped = send.revision
         /\ Len(old_to_new) = Cardinality(send.revision)

\* A dry run over two commits, one with a Change-Id footer and one without,
\* has returned Ok with a head found to push.
C20_Witness ==
  /\ send.dry_run
  /\ pc = "done"
  /\ returned.ok
  /\ Len(old_to_new) = 2
  /\ \E i, j \in 1..2 : old_to_new[i].dry /\ ~old_to_new[j].dry
  /\ Len(new_heads) = 1
  /\ pushes = <<>>

\* The description has a `Change-Id: value` line in its trailing block of
\* footer lines.
HasChangeIdFooter(description) ==
  LET text == TrimmedLines(description)
  IN  /\ Len(text) > 1
      /\ \E i \in BlockStart(text)..Len(text) : KeyOf(text[i]) = ChangeIdKey

\* The Change-Id lines of the description's trailing block.
ChangeIdLines(description) ==
  LET text == TrimmedLines(description)
  IN  { j \in BlockStart(text)..Len(text) : KeyOf(text[j]) = ChangeIdKey }

\* The value of the description's only Change-Id line is no `I` with 40
\* characters after it.
IsMalformed(description) ==
  LET text == TrimmedLines(description)
      value == ValueOf(text[CHOOSE j \in ChangeIdLines(description) : TRUE])
  IN  Len(value) # GerritHashLen + 1 \/ value[1] # "I"

HexDigits == { HexChars[i] : i \in 1..Len(HexChars) }

\* `rewritten` is the trimmed `original`, one or two line ends, and the one
\* line `Change-Id: I` with 40 hex characters.
IsOriginalAndOneChangeIdLine(original, rewritten) ==
  \E sep \in { <<"\n">>, <<"\n", "\n">> } :
    LET prefix == trim(original) \o sep \o ChangeIdKey \o <<":", " ", "I">>
    IN  /\ Len(rewritten) = Len(prefix) + GerritHashLen + 1
        /\ SubSeq(rewritten, 1, Len(prefix)) = prefix
        /\ \A k \in (Len(prefix) + 1)..(Len(prefix) + GerritHashLen) :
             rewritten[k] \in HexDigits
        /\ rewritten[Len(rewritten)] = "\n"

\* The commit has a warning of this text.
Warned(commit_id, text) ==
  \E w \in 1..Len(warnings) : warnings[w] = [commit |-> commit_id, text |-> text]

\* C21: in a run without --dry-run, a commit the loop has visited is
\* rewritten if and only if its description has no Change-Id footer; the
\* rewritten description is the trimmed original followed by exactly one
\* line `Change-Id: I` and 40 hex characters; a commit with a Change-Id
\* footer, also a malformed or a repeated one (which gives a warning and
\* nothing else), is mapped to itself and no rewritten version of it is
\* written.
C21_RewrittenIffNoChangeId ==
  ~send.dry_run =>
    /\ \A i \in 1..Len(old_to_new) :
         LET old == old_to_new[i].old
             mapped == old_to_new[i].new
             description == store[old].description
         IN  /\ (mapped # old) <=> ~HasChangeIdFooter(description)
             /\ mapped # old =>
                  /\ mapped \in DOMAIN store
                  /\ IsOriginalAndOneChangeIdLine(description, store[mapped].description)
             /\ HasChangeIdFooter(description) =>
                  /\ mapped = old
                  /\ RewrittenId(old) \notin DOMAIN store
                  /\ Cardinality(ChangeIdLines(description)) > 1 =>
                       Warned(old, "multiple")
                  /\ (Cardinality(ChangeIdLines(description)) = 1
                        /\ IsMalformed(description)) => Warned(old, "invalid")
    /\ \A c \in (DOMAIN store) \ CommitIds :
         \E i \in 1..Len(old_to_new) :
           old_to_new[i].new = c /\ ~HasChangeIdFooter(store[old_to_new[i].old].description)
    /\ (pc \in {"push", "done"} /\ check_send(send, store) = "Ok") =>
         Mapped = send.revision

\* A run without --dry-run has rewritten a commit whose description had a
\* footer without a Change-Id and has kept one with a malformed Change-Id,
\* with a warning.
C21_Witness ==
  /\ ~send.dry_run
  /\ pc = "push"
  /\ Len(old_to_new) = 2
  /\ old_to_new[1].new # old_to_new[1].old
  /\ get_footer_lines(store[old_to_new[1].old].description).some
  /\ old_to_new[2].new = old_to_new[2].old
  /\ Warned(old_to_new[2].old, "invalid")

\* The selection holds the root commit.
SelectsRoot == root_commit_id \in send.revision

\* The --for target is not exactly of the form branch@remote.
TargetNotExact == ~(send.for_.parses /\ send.for_.exact)

\* The Git repo has no remote of the target's name.
RemoteMissing == send.for_.remote \notin Remotes

\* A selected commit is empty and has no description.
SelectsDiscardable ==
  \E c \in send.revision :
    c \in DOMAIN store /\ store[c].description = <<>> /\ store[c].empty

\* The error that is reported when the commits are rewritable and the repo
\* is backed by Git: that of the first check that fails.
FirstError ==
  IF SelectsRoot THEN "root commit"
  ELSE IF ~send.for_.parses THEN "target does not parse"
  ELSE IF ~send.for_.exact THEN "target not exact"
  ELSE IF RemoteMissing THEN "no such remote"
  ELSE "discardable commit"

\* C23: when the selection holds the root commit, the --for target is not
\* exactly branch@remote, the remote is not in the Git repo or a selected
\* commit is discardable, gerrit send returns an error, with or without
\* --dry-run, and at no point of the run has it visited or rewritten a
\* commit, looked for heads or pushed; the run never enters the loop.
C23_ChecksComeBeforeAnyRewrite ==
  (pc # "idle" /\ (SelectsRoot \/ TargetNotExact \/ RemoteMissing \/ SelectsDiscardable)) =>
    /\ pc \in {"check", "done"}
    /\ store \in Stores
    /\ old_to_new = <<>>
    /\ todo = <<>>
    /\ new_heads = <<>>
    /\ pushes = <<>>
    /\ pc = "done" =>
         /\ returned.done
         /\ ~returned.ok
         /\ (send.env.git /\ send.env.rewritable) => returned.err = FirstError

\* A run without --dry-run over a commit that would be rewritten and a
\* discardable one, to an exact target on a remote that exists, has returned
\* the error with nothing written.
C23_Witness ==
  /\ ~send.dry_run
  /\ pc = "done"
  /\ returned.err = "discardable commit"
  /\ send.revision = {1, 2}
  /\ store[1].description = <<"x">>
  /\ store \in Stores
  /\ pushes = <<>>

\* The description has a `Change-Id: value` line, wherever it stands.
CarriesChangeId(description) ==
  \E i \in 1..Len(lines(description)) :
    /\ IsFooterLine(lines(description)[i])
    /\ KeyOf(lines(description)[i]) = ChangeIdKey

\* The commits a push of `head` sends: the head and its ancestors, without
\* the root commit.
Sent(head) ==
  { a \in (DOMAIN store) \ {root_commit_id} : IsAncestor(store, a, head) }

\* The selected commit, or what it was rewritten to, is among the commits.
VersionsIn(commits, selected) ==
  { a \in commits :
      \/ a = selected
      \/ \E i \in 1..Len(old_to_new) :
           old_to_new[i].old = selected /\ old_to_new[i].new = a }

\* C24: in a run without --dry-run, every version of a selected commit that
\* a push sends carries a Change-Id line, and a pushed commit that had a
\* Change-Id already stands on what its selected parents were mapped to.
C24_AsStated ==
  ~send.dry_run =>
    \A p \in 1..Len(pushes) :
      /\ \A c \in send.revision :
           \A a \in VersionsIn(Sent(pushes[p].head), c) :
             CarriesChangeId(store[a].description)
      /\ \A i, j \in 1..Len(old_to_new) :
           (/\ old_to_new[j].new = pushes[p].head
            /\ old_to_new[j].new = old_to_new[j].old
            /\ old_to_new[i].new # old_to_new[i].old
            /\ \E k \in 1..Len(store[old_to_new[j].old].parents) :
                 store[old_to_new[j].old].parents[k] = old_to_new[i].old)
           => \E k \in 1..Len(store[pushes[p].head].parents) :
                store[pushes[p].head].parents[k] = old_to_new[i].new

\* The step is a `jj commit` that committed.
Committed == repo_log' # repo_log

\* The branches on the commit.
BranchesOn(id) == { b \in DOMAIN local_branches : local_branches[b] = id }

\* advance-branches is in effect for the branch: enabled and the branch not
\* in the overrides, or disabled and the branch in the overrides.
InEffectFor(b) ==
  advance_branches.enabled # (b \in advance_branches.overrides)

\* After the step the branch is where it was, on the new @- if it was on @.
Stays(b) ==
  local_branches'[b] =
    IF local_branches[b] = resolve(repo_log, "@") THEN resolve(repo_log', "@-")
    ELSE local_branches[b]

\* C22 as stated: a `jj commit` with advance-branches enabled and exactly one
\* branch on @- moves that branch onto the new @-, and a `jj commit` with
\* advance-branches disabled leaves every branch where it was.
C22_AsStated ==
  [][Committed =>
       /\ (advance_branches.enabled
             /\ Cardinality(BranchesOn(resolve(repo_log, "@-"))) = 1) =>
            \A b \in BranchesOn(resolve(repo_log, "@-")) :
              local_branches'[b] = resolve(repo_log', "@-")
       /\ ~advance_branches.enabled =>
            \A b \in DOMAIN local_branches : Stays(b)]_vars

\* C22: a `jj commit` that commits puts a new commit in the place of @ and a
\* new @ above it; it moves the one branch on @- for which advance-branches
\* is in effect onto the new @-, there is never more than one such branch,
\* and every other branch is left where it was, on the new @- if it was on @.
C22_CommitAdvancesTheBranchInEffect ==
  [][Committed =>
       LET advancing == { b \in BranchesOn(resolve(repo_log, "@-")) : InEffectFor(b) }
       IN  /\ Len(repo_log') = Len(repo_log) + 1
           /\ \A i \in 1..Len(repo_log) : repo_log[i] # resolve(repo_log', "@-")
           /\ DOMAIN local_branches' = DOMAIN local_branches
           /\ Cardinality(advancing) <= 1
           /\ \A b \in advancing : local_branches'[b] = resolve(repo_log', "@-")
           /\ \A b \in (DOMAIN local_branches) \ advancing : Stays(b)]_vars

\* The end of test_advance_branches_enabled: the first commit, with
\* advance-branches enabled, has moved test_branch from the root commit onto
\* the new @-, and the second, with it disabled, has left it there.
C22_Witness ==
  /\ jj_cmd = Ran_jj("commit", TRUE, {})
  /\ ~advance_branches.enabled
  /\ advance_branches.overrides = {}
  /\ repo_log = <<0, 2, 4, 5>>
  /\ DOMAIN local_branches = {"test_branch"}
  /\ local_branches["test_branch"] = 2

====
